---- MODULE Spec2Model ----
(***************************************************************************)
(* A model of the news-feed pipeline of google_apps_scripts                *)
(* (news_feed.js, carried in src/utils_network.js from line 235 on) and of *)
(* the helpers it calls in utils.js, utils_ai.js and utils_google_drive.js.*)
(*                                                                         *)
(* Text is a sequence of tokens.  A token stands for a run of characters   *)
(* (CharLen gives its length), so that the length thresholds 30 and 500    *)
(* are reached by short sequences.  The tokens "," and " " and the         *)
(* reasoning tags are the ones the parsing code looks at.                  *)
(***************************************************************************)
EXTENDS Integers, Sequences, FiniteSets, TLC

VARIABLES
    groupNumber,      \* argument of processNewsFeedsByGroup
    pc,               \* position of the run
    feedIdx,          \* index into targetFeeds of the feed being processed
    limited,          \* limitedEntries.length of the current feed
    entryIdx,         \* index (1-based) of the forEach callback over limitedEntries
    entry,            \* the entry the callback was called with
    classification,   \* result of classifyNewsByTitle for the entry
    extractedContent, \* result of extractNewsContent for the entry
    finalContent,     \* the body that reaches the length gate
    isAISummarized,   \* the flag handed to formatNewsContent
    newsContent,      \* the formatted record handed to saveNewsToDrive
    totalProcessed,
    totalSaved,
    totalErrors,
    summary,          \* the summary handed to Utils.logEnd, NoSummary before
    folder,           \* the Drive folder: its files, each a name and a content
    calls,            \* external calls made so far, by kind
    snap,             \* counters and calls when the current callback was entered
    outcome,          \* how the current callback ended ("running" while inside)
    oracle,           \* the outcome of the latest oracle request
    args,             \* the arguments of a function called on its own
    result            \* what that call returned

vars == << groupNumber, pc, feedIdx, limited, entryIdx, entry, classification,
           extractedContent, finalContent, isAISummarized, newsContent,
           totalProcessed, totalSaved, totalErrors, summary, folder, calls,
           snap, outcome, oracle, args, result >>

(***************************************************************************)
(* Bounds of the model.                                                    *)
(***************************************************************************)
\* Longest oracle response (in tokens) of the stand-alone classifier runs.
MaxRespLen == 4
\* Most entries a feed fetch returns in the group runs.
MaxEntries == 2
\* Longest text, in lines, handed to cleanFooterContent on its own.
MaxDocLines == 16
\* Most threads a mailbox holds beyond one batch.
MaxExtraThreads == 2
\* Most filters of a cleaning configuration, most files of a folder.
MaxFilters == 2
MaxFiles == 2
\* Longest page, in tokens, handed to extractElement on its own.
MaxHtmlLen == 5
\* Largest maxRedirects option tried (0 stands for none given).
MaxRedirects == 3

(***************************************************************************)
(* Configuration (src/utils_network.js 259-322).                           *)
(***************************************************************************)
minContentLength == 30
maxContentLength == 500
DefaultMaxEntriesPerFeed == 50
detailPageEnabled == TRUE
\* fetchDetailPageContent accepts a fragment longer than this (line 680).
minFragmentLength == 100
\* The length AI_SUMMARIZATION_PROMPT asks the summary to stay within
\* (line 360).
summaryBudget == 400

\* RSS_FEEDS: three sources in two groups, each with its own limit
\* (maxEntriesPerFeed = 0 would stand for a source that does not set it);
\* detail is detailPageConfig.enabled.
RSS_FEEDS ==
    << [name |-> "srcA", processGroup |-> 1, maxEntriesPerFeed |-> 1, detail |-> TRUE],
       [name |-> "srcB", processGroup |-> 1, maxEntriesPerFeed |-> 1, detail |-> FALSE],
       [name |-> "srcC", processGroup |-> 2, maxEntriesPerFeed |-> 2, detail |-> TRUE] >>

\* The group numbers a run may be started with (3 has no source).
Groups == {1, 2, 3}

(***************************************************************************)
(* Text.                                                                   *)
(***************************************************************************)
\* Number of characters a token stands for.
CharLen(tok) ==
    CASE tok = "lo"          -> minContentLength - 1
      [] tok = "mid"         -> maxContentLength - minContentLength
      [] tok = "<think>"     -> 7
      [] tok = "</think>"    -> 8
      [] tok = "<thinking>"  -> 10
      [] tok = "</thinking>" -> 11
      [] tok = "A100"        -> minFragmentLength
      [] tok = "B100"        -> minFragmentLength
      [] tok = "fin"         -> 4
      [] tok = "fail"        -> 4
      [] tok = "ExtractFailed" -> 8
      [] tok = "CleanFailed"   -> 8
      [] tok = "Empty"         -> 6
      [] OTHER               -> 1

RECURSIVE TextLen(_)
\* String.prototype.length
TextLen(s) == IF s = << >> THEN 0 ELSE CharLen(Head(s)) + TextLen(Tail(s))

\* The whitespace tokens: a blank and a line break.
IsSpace(tok) == tok \in {" ", "\n"}

RECURSIVE TrimLeft(_)
TrimLeft(s) == IF s # << >> /\ IsSpace(Head(s)) THEN TrimLeft(Tail(s)) ELSE s

RECURSIVE TrimRight(_)
TrimRight(s) ==
    IF s # << >> /\ IsSpace(s[Len(s)]) THEN TrimRight(SubSeq(s, 1, Len(s) - 1)) ELSE s

\* String.prototype.trim
trim(s) == TrimRight(TrimLeft(s))

RECURSIVE StripTag(_, _, _)
\* s.replace(/<open>[\s\S]*?<\/close>/g, ''): leftmost match, shortest span,
\* then on from the end of the match.
StripTag(s, open, close) ==
    IF s = << >> THEN << >>
    ELSE IF Head(s) = open /\ \E j \in 2..Len(s) : s[j] = close
         THEN LET j == CHOOSE k \in 2..Len(s) :
                          s[k] = close /\ \A m \in 2..(k - 1) : s[m] # close
              IN  StripTag(SubSeq(s, j + 1, Len(s)), open, close)
         ELSE << Head(s) >> \o StripTag(Tail(s), open, close)

\* NewsUtils.AI.cleanThinkingTags
cleanThinkingTags(rawResponse) ==
    trim(StripTag(StripTag(rawResponse, "<think>", "</think>"),
                  "<thinking>", "</thinking>"))

RECURSIVE split(_, _)
\* s.split(sep)
split(s, sep) ==
    IF \A i \in 1..Len(s) : s[i] # sep
    THEN << s >>
    ELSE LET i == CHOOSE k \in 1..Len(s) :
                      s[k] = sep /\ \A m \in 1..(k - 1) : s[m] # sep
         IN  << SubSeq(s, 1, i - 1) >> \o split(SubSeq(s, i + 1, Len(s)), sep)

RECURSIVE join(_, _)
\* parts.join(sep)
join(parts, sep) ==
    IF parts = << >> THEN << >>
    ELSE IF Len(parts) = 1 THEN parts[1]
    ELSE parts[1] \o << sep >> \o join(Tail(parts), sep)

(***************************************************************************)
(* The text oracle and the classifier.                                     *)
(***************************************************************************)
\* An API outcome: the request failed, or the reply text it carried.
\* ApiNone: no request has been made.
ApiNone == [ok |-> FALSE, text |-> << "none" >>]
ApiFailure == [ok |-> FALSE, text |-> << >>]
ApiReply(t) == [ok |-> TRUE, text |-> t]

\* UtilsAI.askGroq: an empty reply is raised as an error like a failed request.
askGroq(api) == IF api.ok /\ api.text # << >> THEN api ELSE ApiFailure

\* '分类失败'
FailureCategory == << "fail" >>
ClassificationFailed == [shouldSave |-> FALSE, category |-> FailureCategory]

\* A mutant of classifyNewsByTitle: the flag is not validated.
classifyNewsByTitle_noFlagCheck(api) ==
    LET asked == askGroq(api) IN
    IF ~asked.ok THEN ClassificationFailed
    ELSE LET response == cleanThinkingTags(asked.text)
             raw      == split(response, ",")
             parts    == [i \in 1..Len(raw) |-> trim(raw[i])]
         IN  IF Len(parts) < 2 THEN ClassificationFailed
             ELSE [shouldSave |-> parts[1] = << "1" >>,
                   category   |-> join(SubSeq(parts, 2, Len(parts)), ",")]

\* A mutant of classifyNewsByTitle: a failure keeps the item.
classifyNewsByTitle_failOpen(api) ==
    LET asked == askGroq(api) IN
    IF ~asked.ok THEN [shouldSave |-> TRUE, category |-> FailureCategory]
    ELSE LET response == cleanThinkingTags(asked.text)
             raw      == split(response, ",")
             parts    == [i \in 1..Len(raw) |-> trim(raw[i])]
         IN  IF Len(parts) < 2 \/ parts[1] \notin { << "0" >>, << "1" >> }
             THEN [shouldSave |-> TRUE, category |-> FailureCategory]
             ELSE [shouldSave |-> parts[1] = << "1" >>,
                   category   |-> join(SubSeq(parts, 2, Len(parts)), ",")]

\* A mutant of classifyNewsByTitle: the category ends at the second comma.
classifyNewsByTitle_firstPart(api) ==
    LET asked == askGroq(api) IN
    IF ~asked.ok THEN ClassificationFailed
    ELSE LET response == cleanThinkingTags(asked.text)
             raw      == split(response, ",")
             parts    == [i \in 1..Len(raw) |-> trim(raw[i])]
         IN  IF Len(parts) < 2 THEN ClassificationFailed
             ELSE IF parts[1] # << "0" >> /\ parts[1] # << "1" >>
                  THEN ClassificationFailed
             ELSE [shouldSave |-> parts[1] = << "1" >>, category |-> parts[2]]

\* NewsUtils.AI.classifyNewsByTitle, given the outcome of its API request.
\* Every throw inside its try block lands in the catch, which returns
\* ClassificationFailed.
classifyNewsByTitle(api) ==
    LET asked == askGroq(api) IN
    IF ~asked.ok THEN ClassificationFailed
    ELSE LET response == cleanThinkingTags(asked.text)
             raw      == split(response, ",")
             parts    == [i \in 1..Len(raw) |-> trim(raw[i])]
         IN  IF Len(parts) < 2 THEN ClassificationFailed
             ELSE IF parts[1] # << "0" >> /\ parts[1] # << "1" >>
                  THEN ClassificationFailed
             ELSE [shouldSave |-> parts[1] = << "1" >>,
                   category   |-> join(SubSeq(parts, 2, Len(parts)), ",")]

(***************************************************************************)
(* Content resolution.                                                     *)
(***************************************************************************)
linesToCheck == 10

\* The tokens cleanFooterContent drops a line for, and the end-of-article
\* marker it deletes from a line.
keywordsToRemove == {"kw"}
EndMarker == "(end)"

\* line.replace(/\(end\)/g, '')
RemoveEndMarker(line) == SelectSeq(line, LAMBDA tok : tok # EndMarker)

\* The map callback of cleanFooterContent.
ProcessLine(line) ==
    LET processedLine == trim(line) IN
    IF \E i \in 1..Len(processedLine) : processedLine[i] = EndMarker
    THEN trim(RemoveEndMarker(processedLine))
    ELSE processedLine

\* The filter callback of cleanFooterContent.
KeepLine(line) == ~ \E i \in 1..Len(line) : line[i] \in keywordsToRemove

\* NewsUtils.Content.cleanFooterContent
cleanFooterContent(content) ==
    IF content = << >> \/ trim(content) = << >> THEN content
    ELSE LET lines          == split(content, "\n")
             startIndex     == IF Len(lines) - linesToCheck - 1 > 0
                               THEN Len(lines) - linesToCheck - 1 ELSE 0
             linesToProcess == SubSeq(lines, startIndex + 1, Len(lines))
             remainingLines == SubSeq(lines, 1, startIndex)
             mapped         == [i \in 1..Len(linesToProcess) |->
                                    ProcessLine(linesToProcess[i])]
             processedLines == SelectSeq(mapped, KeepLine)
         IN  trim(join(remainingLines \o processedLines, "\n"))

\* The failure sentinels of extractNewsContent.
ExtractFailed == << "ExtractFailed" >>
CleanFailed == << "CleanFailed" >>
ContentEmpty == << "Empty" >>

\* An outcome of Utils.cleanHtmlContent: it threw, or the cleaned text.
CleanThrew == [ok |-> FALSE, text |-> << >>]
Cleaned(t) == [ok |-> TRUE, text |-> t]

\* Utils.cleanHtmlContent on a text whose markup is paragraph tags and other
\* plain tags (no entities, comments, scripts or runs of blanks): a paragraph
\* tag becomes two line breaks, any other tag goes, the result is trimmed.
ParagraphTags == { "<p>", "</p>" }
OtherTags == { "<b>", "</b>" }
RECURSIVE ReplaceTags(_)
ReplaceTags(html) ==
    IF html = << >> THEN << >>
    ELSE IF Head(html) \in ParagraphTags THEN << "\n", "\n" >> \o ReplaceTags(Tail(html))
    ELSE IF Head(html) \in OtherTags THEN ReplaceTags(Tail(html))
    ELSE << Head(html) >> \o ReplaceTags(Tail(html))

cleanHtmlContent(html) == trim(ReplaceTags(html))

\* A text that is neither empty nor blank: src && src.trim().length > 0
NonBlank(t) == t # << >> /\ trim(t) # << >>

\* shouldFetchDetailPage of extractNewsContent
shouldFetchDetailPage(e, feedConfig) ==
    detailPageEnabled /\ NonBlank(e.link) /\ feedConfig.detail # FALSE

\* A mutant of contentSources: the description comes first.
contentSources_descriptionFirst(e) == << e.description, e.encoded, e.content, e.summary >>

\* contentSources of extractNewsContent, in priority order.
contentSources(e) == << e.encoded, e.content, e.description, e.summary >>

\* A mutant of orContentEmpty: the text is returned as it is.
orContentEmpty_asIs(c) == c

\* Line 611: finalContent || ContentEmpty
orContentEmpty(c) == IF c = << >> THEN ContentEmpty ELSE c

\* The texts of an entry that may be handed to Utils.cleanHtmlContent.
RawFields(e) == { e.encoded, e.content, e.description, e.summary }

\* NewsUtils.Content.extractNewsContent, given what fetchDetailPageContent
\* returns for the link (read only when the detail page is fetched) and what
\* Utils.cleanHtmlContent does with the chosen feed field.
extractNewsContent(e, feedConfig, detailPage, cleaning) ==
    LET detailPageContent == IF shouldFetchDetailPage(e, feedConfig)
                             THEN detailPage ELSE << >>
        sources == contentSources(e)
        found   == { i \in 1..Len(sources) : NonBlank(sources[i]) }
    IN  IF NonBlank(detailPageContent)
        THEN orContentEmpty(cleanFooterContent(detailPageContent))
        ELSE IF found = {} THEN ExtractFailed
        ELSE LET rawContent == sources[CHOOSE i \in found : \A j \in found : i <= j]
                 cleaned    == cleaning[rawContent]
             IN  IF ~cleaned.ok THEN CleanFailed
                 ELSE orContentEmpty(cleanFooterContent(cleaned.text))

(***************************************************************************)
(* The feed reader.                                                        *)
(***************************************************************************)
\* What fetching a feed's URL does: the request throws (a network error, too
\* many redirects), or it answers with a status code and a text that is
\* well-formed XML with a number of items, or is not.
FeedFetchThrew(why) == [threw |-> TRUE, why |-> why, code |-> 0, wellFormed |-> FALSE, items |-> 0]
FeedAnswer(code, wellFormed, items) ==
    [threw |-> FALSE, why |-> "", code |-> code, wellFormed |-> wellFormed, items |-> items]

\* UtilsNetwork.fetchXml: the text of a 200 answer; anything else is thrown.
fetchXml(response) ==
    IF response.threw \/ response.code # 200
    THEN [threw |-> TRUE, wellFormed |-> FALSE, items |-> 0]
    ELSE [threw |-> FALSE, wellFormed |-> response.wellFormed, items |-> response.items]

\* A mutant of fetchAndParse: a failure is thrown on to the caller.
fetchAndParse_rethrows(response) ==
    LET xmlText == fetchXml(response) IN
    IF xmlText.threw \/ ~xmlText.wellFormed THEN [threw |-> TRUE, length |-> 0]
    ELSE [threw |-> FALSE, length |-> xmlText.items]

\* NewsUtils.RSS.fetchAndParse: the number of entries it returns; whatever
\* is thrown inside (by fetchXml, by XmlService.parse) ends in the catch,
\* which returns [].
fetchAndParse(response) ==
    LET xmlText == fetchXml(response) IN
    IF xmlText.threw \/ ~xmlText.wellFormed THEN [threw |-> FALSE, length |-> 0]
    ELSE [threw |-> FALSE, length |-> xmlText.items]

\* The fetch or the parse of the feed fails.
FetchFailed(response) == response.threw \/ response.code # 200 \/ ~response.wellFormed

(***************************************************************************)
(* The detail page.                                                        *)
(***************************************************************************)
\* defaultSelectors of fetchDetailPageContent
defaultSelectors ==
    << "article", ".content", "div[class*=content]", "div[class*=main]",
       "div[class*=article]", "div[class*=post]" >>

\* What UrlFetchApp.fetch does: it throws, or answers with a status code and
\* a document.  A document is what its markup gives: the fragment
\* Utils.extractElement finds for a selector, the text between its body
\* tags (NoBody without them) and its whole text.
NoBody == << "nobody" >>
FetchThrew == [threw |-> TRUE, code |-> 0, html |-> [fragments |-> << >>, body |-> NoBody, whole |-> << >>]]
Response(code, html) == [threw |-> FALSE, code |-> code, html |-> html]

\* Utils.extractElement(html, selector): '' without a match.
extractElement(html, selector) ==
    IF selector \in DOMAIN html.fragments THEN html.fragments[selector] ELSE << >>

\* Utils.removeHtmlElementsBySelector: the elements of the excluded classes
\* go (an element is one token here, named after its class).
removeHtmlElementsBySelector(content, excludeSelectors) ==
    SelectSeq(content, LAMBDA tok : \A i \in 1..Len(excludeSelectors) :
                                       tok # excludeSelectors[i])

\* html.match(/<body[^>]*>([\\s\\S]*?)<\/body>/i): in the pattern as written
\* the class [\\s\\S] holds only the backslash and the letters s and S, so
\* the body matches only when it is made of these.
bodyMatch(html) ==
    IF html.body # NoBody /\ \A i \in 1..Len(html.body) : html.body[i] \in { "\\", "s", "S" }
    THEN html.body ELSE << >>

\* A mutant of longEnough: any fragment with text is accepted.
longEnough_anyText(fragment) ==
    fragment # << >> /\ trim(fragment) # << >>

\* Lines 677-680: the fragment has text and more than 100 characters of it.
longEnough(fragment) ==
    /\ fragment # << >> /\ trim(fragment) # << >>
    /\ TextLen(trim(fragment)) > minFragmentLength

\* A mutant of fetchDetailPageContent: the status code is not looked at.
fetchDetailPageContent_anyStatus(link, detailPageConfig, response, throws) ==
    IF link = << >> \/ trim(link) = << >> THEN << >>
    ELSE IF response.threw \/ throws THEN << >>
    ELSE cleanHtmlContent(response.html.whole)

\* NewsUtils.Content.fetchDetailPageContent, given what the fetch does and
\* whether a step after it (extracting, excluding, cleaning) throws.
fetchDetailPageContent(link, detailPageConfig, response, throws) ==
    IF link = << >> \/ trim(link) = << >> THEN << >>
    ELSE IF response.threw THEN << >>
    ELSE IF response.code # 200 THEN << >>
    ELSE IF throws THEN << >>
    ELSE LET html      == response.html
             selectors == IF detailPageConfig.selectors # << >>
                          THEN detailPageConfig.selectors ELSE defaultSelectors
             accepted  == { i \in 1..Len(selectors) :
                               longEnough(extractElement(html, selectors[i])) }
             content   == IF accepted # {}
                          THEN extractElement(html,
                                  selectors[CHOOSE i \in accepted : \A j \in accepted : i <= j])
                          ELSE IF bodyMatch(html) # << >> THEN bodyMatch(html)
                          ELSE html.whole
             contentAfterExclusion ==
                          IF detailPageConfig.excludeSelectors # << >>
                          THEN removeHtmlElementsBySelector(content,
                                   detailPageConfig.excludeSelectors)
                          ELSE content
         IN  cleanHtmlContent(contentAfterExclusion)

(***************************************************************************)
(* The summarizer.                                                         *)
(***************************************************************************)
\* A mutant of summarizeContent: a failed call yields no content.
summarizeContent_failClosed(content, api) ==
    LET asked == askGroq(api) IN
    IF ~asked.ok THEN << >> ELSE cleanThinkingTags(asked.text)

\* NewsUtils.AI.summarizeContent, given the outcome of its API request.
summarizeContent(content, api) ==
    LET asked == askGroq(api) IN
    IF ~asked.ok THEN content ELSE cleanThinkingTags(asked.text)

(***************************************************************************)
(* Persistence.                                                            *)
(***************************************************************************)
\* The characters Utils.safeFileName removes: \ / : * ? " < > |
IllegalChars == {"?", "/", ":"}
SafeFileNameMaxLength == 100

RECURSIVE substring(_, _)
\* s.substring(0, n), for a cut that falls between two tokens.
substring(s, n) ==
    IF s = << >> \/ CharLen(Head(s)) > n THEN << >>
    ELSE << Head(s) >> \o substring(Tail(s), n - CharLen(Head(s)))

\* Utils.safeFileName
safeFileName(text, maxLength) ==
    LET safe == SelectSeq(text, LAMBDA tok : tok \notin IllegalChars)
    IN  trim(IF TextLen(safe) > maxLength THEN substring(safe, maxLength) ELSE safe)

\* A mutant of formatNewsContent: every body is marked as the original text.
formatNewsContent_noFlag(fields) ==
    [source   |-> IF fields.source = "" THEN "unknown" ELSE fields.source,
     category |-> IF fields.category = << >> THEN << "uncategorised" >>
                  ELSE fields.category,
     title    |-> IF fields.title = << >> THEN << "untitled" >> ELSE fields.title,
     prefix   |-> "original",
     content  |-> IF fields.content = << >> THEN ContentEmpty ELSE fields.content]

\* NewsUtils.Storage.formatNewsContent: the four parts of the file text, in
\* order: source line, category line, title, prefixed body.
formatNewsContent(fields) ==
    [source   |-> IF fields.source = "" THEN "unknown" ELSE fields.source,
     category |-> IF fields.category = << >> THEN << "uncategorised" >>
                  ELSE fields.category,
     title    |-> IF fields.title = << >> THEN << "untitled" >> ELSE fields.title,
     prefix   |-> IF fields.isAISummarized THEN "AI summary" ELSE "original",
     content  |-> IF fields.content = << >> THEN ContentEmpty ELSE fields.content]

\* folder.getFilesByName(fileName): the positions of the files of that name
\* (a Drive folder may hold several files of one name).
getFilesByName(dir, fileName) == { i \in 1..Len(dir) : dir[i].name = fileName }

\* A mutant of saveOrUpdateFile: a file is created whether or not one of
\* that name exists.
saveOrUpdateFile_alwaysCreate(dir, fileName, content, driveOk) ==
    IF fileName = << >> \/ trim(fileName) = << >> THEN [success |-> FALSE, folder |-> dir]
    ELSE IF ~driveOk THEN [success |-> FALSE, folder |-> dir]
    ELSE [success |-> TRUE,
          folder |-> Append(dir, [name |-> fileName, content |-> content])]

\* UtilsGoogleDrive.saveOrUpdateFile, given whether the Drive operation
\* succeeds: the first file of that name gets the content; without one a
\* file is created.
saveOrUpdateFile(dir, fileName, content, driveOk) ==
    IF fileName = << >> \/ trim(fileName) = << >> THEN [success |-> FALSE, folder |-> dir]
    ELSE IF ~driveOk THEN [success |-> FALSE, folder |-> dir]
    ELSE LET files == getFilesByName(dir, fileName) IN
         IF files # {}
         THEN LET file == CHOOSE i \in files : \A j \in files : i <= j
              IN  [success |-> TRUE, folder |-> [dir EXCEPT ![file].content = content]]
         ELSE [success |-> TRUE,
               folder |-> Append(dir, [name |-> fileName, content |-> content])]

\* Line 956: the file name saveNewsToDrive derives from the title.
newsFileName(title) == safeFileName(title, SafeFileNameMaxLength) \o << ".txt" >>

\* A mutant of saveNewsToDrive: a file of the derived name that is already
\* there is kept as it is, and the save still reports success.
saveNewsToDrive_keepFirst(dir, title, content, driveOk) ==
    IF getFilesByName(dir, newsFileName(title)) # {} /\ driveOk
    THEN [success |-> TRUE, folder |-> dir]
    ELSE saveOrUpdateFile(dir, newsFileName(title), content, driveOk)

\* NewsUtils.Storage.saveNewsToDrive
saveNewsToDrive(dir, title, content, driveOk) ==
    saveOrUpdateFile(dir, newsFileName(title), content, driveOk)

(***************************************************************************)
(* Inputs of a group run: what the feeds, the pages, the oracles and the   *)
(* Drive may answer.                                                       *)
(***************************************************************************)
\* Item titles: empty, blank, plain, with a character file names drop.
Titles == { << >>, << " " >>, << "a" >>, << "a", "?" >>, << "b" >> }
Links == { << >>, << "u" >> }

\* The raw content fields of an item; an absent element reads as ''.
NoFields == [encoded |-> << >>, content |-> << >>, description |-> << >>, summary |-> << >>]
FieldSets ==
    { NoFields,
      [NoFields EXCEPT !.encoded = << " " >>, !.summary = << "<p>", "r" >>] }

Entries ==
    { [title |-> t, link |-> l, encoded |-> f.encoded, content |-> f.content,
       description |-> f.description, summary |-> f.summary] :
          t \in Titles, l \in Links, f \in FieldSets }

\* What fetchDetailPageContent may return: nothing, a blank page, pages of
\* 29, 30, 501 and 600 characters (the second with a byline as its last
\* line).
DetailPages ==
    { << >>, << " " >>, << "lo" >>, << "lo", "d", "\n", "kw" >>,
      << "lo", "d", "mid", "d" >>, << "lo", "d", "mid", "A100" >> }

\* What Utils.cleanHtmlContent may do: throw, or return nothing, a byline
\* alone, or a text of 500 characters.
Cleanings ==
    { CleanThrew, Cleaned(<< >>), Cleaned(<< "kw" >>), Cleaned(<< "lo", "r", "mid" >>) }

\* What fetching a feed may give in a group run.
FeedResponses ==
    { FeedFetchThrew("network"), FeedFetchThrew("redirects"),
      FeedAnswer(404, TRUE, 1), FeedAnswer(500, FALSE, 0), FeedAnswer(200, FALSE, 0) }
        \cup { FeedAnswer(200, TRUE, n) : n \in 0..MaxEntries }

\* What the classification request may yield in a group run.
ClassifierReplies ==
    { ApiFailure,
      ApiReply(<< >>),
      ApiReply(<< "1", ",", "fin" >>),
      ApiReply(<< "0", ",", "fin" >>),
      ApiReply(<< "maybe" >>),
      ApiReply(<< "2", ",", "fin" >>),
      ApiReply(<< "<think>", "0", ",", "</think>", "1", " ", ",", "fin" >>) }

\* What the summarization request may yield: summaries of 29, 30 and 470
\* characters, bare or after a reasoning block, and a reasoning block alone.
SummarizerReplies ==
    { ApiFailure,
      ApiReply(<< >>),
      ApiReply(<< "mid" >>),
      ApiReply(<< "lo" >>),
      ApiReply(<< "lo", "s" >>),
      ApiReply(<< "<think>", "lo", "s", "</think>", "lo" >>),
      ApiReply(<< "<think>", "lo", "</think>", "lo", "s" >>),
      ApiReply(<< "<think>", "s", "</think>" >>) }

\* All oracle responses of at most MaxRespLen tokens, for the stand-alone
\* classifier runs.
Alphabet == { "0", "1", "2", ",", " ", "fin", "fail", "<think>", "</think>" }
\* Longer responses: a category of two words with a comma between them,
\* with a blank before or after the comma.
LongResponses ==
    { << "1", ",", "fin", " ", ",", "fin" >>, << "0", ",", "fin", ",", " ", "fin" >> }
Responses == UNION { [1..n -> Alphabet] : n \in 0..MaxRespLen } \cup LongResponses
ApiOutcomes == { ApiFailure } \cup { ApiReply(r) : r \in Responses }

(***************************************************************************)
(* processNewsFeedsByGroup.                                                *)
(***************************************************************************)
NoEntry == [title |-> << >>, link |-> << >>, encoded |-> << >>, content |-> << >>,
            description |-> << >>, summary |-> << >>]
NoClassification == [shouldSave |-> FALSE, category |-> << >>]
NoContent == [source |-> "", category |-> << >>, title |-> << >>, prefix |-> "",
              content |-> << >>]
NoSummary == [logged |-> FALSE, count |-> 0, processed |-> 0, saved |-> 0,
              skipped |-> 0, errors |-> 0]
\* No function is being called on its own.
NoArgs == [fn |-> "none"]
NoResult == [done |-> FALSE]
NoCalls == [classify |-> 0, fetch |-> 0, summarize |-> 0, write |-> 0]
EmptyFolder == << >>

InitialFolders == { EmptyFolder }

\* Every configured source, whatever its group.
targetFeeds_all == RSS_FEEDS

\* RSS_FEEDS.filter(feed => feed.processGroup === groupNumber)
targetFeeds == SelectSeq(RSS_FEEDS, LAMBDA feed : feed.processGroup = groupNumber)

\* A mutant of feed: the sources are gone through from the last to the first.
feed_reversed == targetFeeds[Len(targetFeeds) + 1 - feedIdx]

\* The feed the forEach over targetFeeds is at.
feed == targetFeeds[feedIdx]

\* feed.maxEntriesPerFeed || PERFORMANCE_CONFIG.maxEntriesPerFeed
maxEntries(f) ==
    IF f.maxEntriesPerFeed # 0 THEN f.maxEntriesPerFeed ELSE DefaultMaxEntriesPerFeed

\* entries.slice(0, maxEntries).length
limitedLength(n, f) == IF n < maxEntries(f) THEN n ELSE maxEntries(f)

\* The counters and calls a callback starts from.
Counters == [processed |-> totalProcessed, saved |-> totalSaved,
             errors |-> totalErrors, calls |-> calls]

TypeOK ==
    /\ groupNumber \in Groups
    /\ pc \in { "start", "folder", "feed", "entry", "classify", "extract",
                "summarize", "save", "summary", "done", "returned",
                "ask", "parsed", "call", "ret", "threads", "request" }
    /\ totalProcessed \in Nat /\ totalSaved \in Nat /\ totalErrors \in Nat
    /\ isAISummarized \in BOOLEAN
    /\ classification.shouldSave \in BOOLEAN

Init ==
    /\ groupNumber \in Groups
    /\ pc = "start"
    /\ feedIdx = 0
    /\ limited = 0
    /\ entryIdx = 0
    /\ entry = NoEntry
    /\ classification = NoClassification
    /\ extractedContent = << >>
    /\ finalContent = << >>
    /\ isAISummarized = FALSE
    /\ newsContent = NoContent
    /\ totalProcessed = 0
    /\ totalSaved = 0
    /\ totalErrors = 0
    /\ summary = NoSummary
    /\ folder \in InitialFolders
    /\ calls = NoCalls
    /\ snap = [processed |-> 0, saved |-> 0, errors |-> 0, calls |-> NoCalls]
    /\ outcome = "none"
    /\ oracle = ApiNone
    /\ args = NoArgs
    /\ result = NoResult

\* Lines 989-1012: select the group's feeds; none: log an empty summary.
Start ==
    /\ pc = "start"
    /\ IF Len(targetFeeds) = 0
       THEN /\ summary' = [NoSummary EXCEPT !.logged = TRUE]
            /\ pc' = "done"
       ELSE /\ pc' = "folder"
            /\ UNCHANGED summary
    /\ UNCHANGED << args, result, groupNumber, feedIdx, limited, entryIdx, entry, classification,
                    extractedContent, finalContent, isAISummarized, newsContent,
                    totalProcessed, totalSaved, totalErrors, folder, calls, snap,
                    outcome, oracle >>

\* Lines 1014-1025: create the folder; without it the run returns.
CreateFolder ==
    /\ pc = "folder"
    /\ \E created \in BOOLEAN :
          IF created
          THEN /\ pc' = "feed"
               /\ feedIdx' = 1
          ELSE /\ pc' = "returned"
               /\ UNCHANGED feedIdx
    /\ UNCHANGED << args, result, groupNumber, limited, entryIdx, entry, classification,
                    extractedContent, finalContent, isAISummarized, newsContent,
                    totalProcessed, totalSaved, totalErrors, summary, folder,
                    calls, snap, outcome, oracle >>

\* The forEach over targetFeeds moves on: the next feed, or the summary.
NextFeedPc == IF feedIdx + 1 > Len(targetFeeds) THEN "summary" ELSE "feed"

\* Lines 1028-1039: fetch and parse the feed and cut the entries to the
\* source's limit; were fetchAndParse to throw, the feed's catch would count
\* an error and the run would go on to the next feed.
FetchFeed ==
    /\ pc = "feed"
    /\ \E response \in FeedResponses :
          LET entries == fetchAndParse(response) IN
          /\ outcome' = IF FetchFailed(response) THEN "nofeed" ELSE "none"
          /\ IF entries.threw
             THEN /\ totalErrors' = totalErrors + 1
                  /\ feedIdx' = feedIdx + 1
                  /\ pc' = NextFeedPc
                  /\ UNCHANGED << limited, entryIdx >>
             ELSE /\ limited' = limitedLength(entries.length, feed)
                  /\ entryIdx' = 1
                  /\ pc' = "entry"
                  /\ UNCHANGED << totalErrors, feedIdx >>
    /\ snap' = Counters
    /\ UNCHANGED << args, result, groupNumber, entry, classification,
                    extractedContent, finalContent, isAISummarized, newsContent,
                    totalProcessed, totalSaved, summary, folder, calls, oracle >>

\* Lines 1103-1107: an exception in the feed's try block before its entries
\* are looped over.
FeedException ==
    /\ pc = "feed"
    /\ totalErrors' = totalErrors + 1
    /\ feedIdx' = feedIdx + 1
    /\ pc' = NextFeedPc
    /\ UNCHANGED << args, result, groupNumber, limited, entryIdx, entry, classification,
                    extractedContent, finalContent, isAISummarized, newsContent,
                    totalProcessed, totalSaved, summary, folder, calls, snap,
                    outcome, oracle >>

\* Line 1101: the forEach over limitedEntries has run out; the last
\* callback's locals are gone.
EndFeed ==
    /\ pc = "entry"
    /\ entryIdx > limited
    /\ feedIdx' = feedIdx + 1
    /\ pc' = NextFeedPc
    /\ outcome' = "none"
    /\ entry' = NoEntry
    /\ classification' = NoClassification
    /\ extractedContent' = << >>
    /\ finalContent' = << >>
    /\ isAISummarized' = FALSE
    /\ newsContent' = NoContent
    /\ oracle' = ApiNone
    /\ snap' = Counters
    /\ UNCHANGED << args, result, groupNumber, limited, entryIdx, totalProcessed, totalSaved,
                    totalErrors, summary, folder, calls >>

\* A mutant of InvalidTitle: a blank title passes.
InvalidTitle_noTrim(title) == title = << >>

\* Line 1043: !entry.title || entry.title.trim().length === 0
InvalidTitle(title) == title = << >> \/ trim(title) = << >>

\* A mutant of processedAfter: every entry is counted.
processedAfter_always(e) == totalProcessed + 1

\* Lines 1043-1048: totalProcessed once the callback has looked at the title.
processedAfter(e) ==
    IF InvalidTitle(e.title) THEN totalProcessed ELSE totalProcessed + 1

\* A mutant of EnterEntry: the content is resolved before the title is
\* classified.
EnterEntry_resolveFirst ==
    /\ pc = "entry"
    /\ entryIdx <= limited
    /\ \E e \in Entries :
          /\ entry' = e
          /\ totalProcessed' = processedAfter(e)
          /\ IF InvalidTitle(e.title)
             THEN /\ outcome' = "blank"
                  /\ entryIdx' = entryIdx + 1
                  /\ pc' = "entry"
             ELSE /\ outcome' = "running"
                  /\ pc' = "extract"
                  /\ UNCHANGED entryIdx
    /\ snap' = Counters
    /\ classification' = NoClassification
    /\ extractedContent' = << >>
    /\ finalContent' = << >>
    /\ isAISummarized' = FALSE
    /\ newsContent' = NoContent
    /\ oracle' = ApiNone
    /\ UNCHANGED << args, result, groupNumber, feedIdx, limited, totalSaved, totalErrors,
                    summary, folder, calls >>

\* Lines 1041-1048: the callback is entered with the next entry; an entry
\* without a title is skipped, any other is counted as processed.
EnterEntry ==
    /\ pc = "entry"
    /\ entryIdx <= limited
    /\ \E e \in Entries :
          /\ entry' = e
          /\ totalProcessed' = processedAfter(e)
          /\ IF InvalidTitle(e.title)
             THEN /\ outcome' = "blank"
                  /\ entryIdx' = entryIdx + 1
                  /\ pc' = "entry"
             ELSE /\ outcome' = "running"
                  /\ pc' = "classify"
                  /\ UNCHANGED entryIdx
    /\ snap' = Counters
    /\ classification' = NoClassification
    /\ extractedContent' = << >>
    /\ finalContent' = << >>
    /\ isAISummarized' = FALSE
    /\ newsContent' = NoContent
    /\ oracle' = ApiNone
    /\ UNCHANGED << args, result, groupNumber, feedIdx, limited, totalSaved, totalErrors,
                    summary, folder, calls >>

\* A mutant of keeps: the decision is ignored.
keeps_always(c) == TRUE

\* Line 1053: if (classification.shouldSave)
keeps(c) == c.shouldSave

\* Lines 1051-1053 and 1090-1095: classify the title; an item not to be
\* saved is logged as skipped.
Classify ==
    /\ pc = "classify"
    /\ \E api \in ClassifierReplies :
          LET c == classifyNewsByTitle(api) IN
          /\ oracle' = api
          /\ classification' = c
          /\ IF keeps(c)
             THEN /\ pc' = "extract"
                  /\ UNCHANGED << outcome, entryIdx >>
             ELSE /\ outcome' = "declined"
                  /\ entryIdx' = entryIdx + 1
                  /\ pc' = "entry"
    /\ calls' = [calls EXCEPT !.classify = @ + 1]
    /\ UNCHANGED << args, result, groupNumber, feedIdx, limited, entry, extractedContent,
                    finalContent, isAISummarized, newsContent, totalProcessed,
                    totalSaved, totalErrors, summary, folder, snap >>

\* A mutant of tooShort: nothing is too short.
tooShort_never(body) == FALSE

\* Line 1072: finalContent.length < CONTENT_CONFIG.minContentLength
tooShort(body) == TextLen(body) < minContentLength

\* A mutant of needsSummary: a body of exactly the maximum is summarized.
needsSummary_atMax(body) == TextLen(body) >= maxContentLength

\* Line 1062: extractedContent.length > CONTENT_CONFIG.maxContentLength
needsSummary(body) == TextLen(body) > maxContentLength

\* Lines 1071-1083: the length gate, then the record is formatted.
\* The result is the next position, the outcome and the record.
Gate(body, flag) ==
    IF tooShort(body)
    THEN [pc |-> "entry", outcome |-> "short", record |-> NoContent]
    ELSE [pc |-> "save", outcome |-> "running",
          record |-> formatNewsContent([source |-> feed.name,
                                        category |-> classification.category,
                                        title |-> entry.title,
                                        content |-> body,
                                        isAISummarized |-> flag])]

\* Lines 1055-1062: resolve the content; a long body goes to the summarizer,
\* any other to the gate.
Extract ==
    /\ pc = "extract"
    /\ \E page \in DetailPages, cleaning \in Cleanings :
          LET body == extractNewsContent(entry, feed, page,
                                          [raw \in RawFields(entry) |-> cleaning]) IN
          /\ extractedContent' = body
          /\ finalContent' = body
          /\ IF needsSummary(body)
             THEN /\ pc' = "summarize"
                  /\ UNCHANGED << outcome, entryIdx, newsContent >>
             ELSE LET g == Gate(body, FALSE) IN
                  /\ pc' = g.pc
                  /\ outcome' = g.outcome
                  /\ newsContent' = g.record
                  /\ entryIdx' = IF g.pc = "entry" THEN entryIdx + 1 ELSE entryIdx
    /\ calls' = [calls EXCEPT !.fetch =
                    IF shouldFetchDetailPage(entry, feed) THEN @ + 1 ELSE @]
    /\ UNCHANGED << args, result, groupNumber, feedIdx, limited, entry, classification,
                    isAISummarized, totalProcessed, totalSaved, totalErrors,
                    summary, folder, snap, oracle >>

\* Lines 1062-1083: summarize the long body, mark it, then the gate.
Summarize ==
    /\ pc = "summarize"
    /\ \E api \in SummarizerReplies :
          LET body == summarizeContent(extractedContent, api)
              g    == Gate(body, TRUE)
          IN  /\ oracle' = api
              /\ finalContent' = body
              /\ pc' = g.pc
              /\ outcome' = g.outcome
              /\ newsContent' = g.record
              /\ entryIdx' = IF g.pc = "entry" THEN entryIdx + 1 ELSE entryIdx
    /\ isAISummarized' = TRUE
    /\ calls' = [calls EXCEPT !.summarize = @ + 1]
    /\ UNCHANGED << args, result, groupNumber, feedIdx, limited, entry, classification,
                    extractedContent, totalProcessed, totalSaved, totalErrors,
                    summary, folder, snap >>

\* Lines 1085-1089: write the record; only a successful write is counted.
Save ==
    /\ pc = "save"
    /\ \E driveOk \in BOOLEAN :
          LET r == saveNewsToDrive(folder, entry.title, newsContent, driveOk) IN
          /\ folder' = r.folder
          /\ IF r.success
             THEN /\ totalSaved' = totalSaved + 1
                  /\ outcome' = "saved"
             ELSE /\ outcome' = "savefailed"
                  /\ UNCHANGED totalSaved
    /\ calls' = [calls EXCEPT !.write = @ + 1]
    /\ entryIdx' = entryIdx + 1
    /\ pc' = "entry"
    /\ UNCHANGED << args, result, groupNumber, feedIdx, limited, entry, classification,
                    extractedContent, finalContent, isAISummarized, newsContent,
                    totalProcessed, totalErrors, summary, snap, oracle >>

\* A mutant of ItemException: the exception ends the feed's loop.
ItemException_endsFeed ==
    /\ pc \in { "classify", "extract", "summarize", "save" }
    /\ totalErrors' = totalErrors + 1
    /\ outcome' = "threw"
    /\ entryIdx' = limited + 1
    /\ pc' = "entry"
    /\ UNCHANGED << args, result, groupNumber, feedIdx, limited, entry, classification,
                    extractedContent, finalContent, isAISummarized, newsContent,
                    totalProcessed, totalSaved, summary, folder, calls, snap,
                    oracle >>

\* Lines 1096-1100: an exception inside the callback's try block.
ItemException ==
    /\ pc \in { "classify", "extract", "summarize", "save" }
    /\ totalErrors' = totalErrors + 1
    /\ outcome' = "threw"
    /\ entryIdx' = entryIdx + 1
    /\ pc' = "entry"
    /\ UNCHANGED << args, result, groupNumber, feedIdx, limited, entry, classification,
                    extractedContent, finalContent, isAISummarized, newsContent,
                    totalProcessed, totalSaved, summary, folder, calls, snap,
                    oracle >>

\* A mutant of Summary: the items that raised an exception are not reported
\* as skipped.
Summary_errorsNotSkipped ==
    /\ pc = "summary"
    /\ summary' = [logged |-> TRUE, count |-> totalSaved,
                   processed |-> totalProcessed, saved |-> totalSaved,
                   skipped |-> totalProcessed - totalSaved - totalErrors,
                   errors |-> totalErrors]
    /\ pc' = "done"
    /\ UNCHANGED << args, result, groupNumber, feedIdx, limited, entryIdx, entry, classification,
                    extractedContent, finalContent, isAISummarized, newsContent,
                    totalProcessed, totalSaved, totalErrors, folder, calls, snap,
                    outcome, oracle >>

\* Lines 1110-1125: the run's summary.
Summary ==
    /\ pc = "summary"
    /\ summary' = [logged |-> TRUE, count |-> totalSaved,
                   processed |-> totalProcessed, saved |-> totalSaved,
                   skipped |-> totalProcessed - totalSaved, errors |-> totalErrors]
    /\ pc' = "done"
    /\ UNCHANGED << args, result, groupNumber, feedIdx, limited, entryIdx, entry, classification,
                    extractedContent, finalContent, isAISummarized, newsContent,
                    totalProcessed, totalSaved, totalErrors, folder, calls, snap,
                    outcome, oracle >>

Next ==
    \/ Start
    \/ CreateFolder
    \/ FetchFeed
    \/ FeedException
    \/ EndFeed
    \/ EnterEntry
    \/ Classify
    \/ Extract
    \/ Summarize
    \/ Save
    \/ ItemException
    \/ Summary

Spec == Init /\ [][Next]_vars

\* The run is single-threaded and every call it waits for returns or throws
\* within its timeout, so a step that can be taken is taken.
FairSpec == Spec /\ WF_vars(Next)

(***************************************************************************)
(* A classifier call on its own, for every oracle outcome.                 *)
(***************************************************************************)
ClassifyInit ==
    /\ groupNumber = 1
    /\ pc = "ask"
    /\ feedIdx = 0
    /\ limited = 0
    /\ entryIdx = 0
    /\ entry = NoEntry
    /\ classification = NoClassification
    /\ extractedContent = << >>
    /\ finalContent = << >>
    /\ isAISummarized = FALSE
    /\ newsContent = NoContent
    /\ totalProcessed = 0
    /\ totalSaved = 0
    /\ totalErrors = 0
    /\ summary = NoSummary
    /\ folder = EmptyFolder
    /\ calls = NoCalls
    /\ snap = [processed |-> 0, saved |-> 0, errors |-> 0, calls |-> NoCalls]
    /\ outcome = "none"
    /\ oracle \in ApiOutcomes
    /\ args = NoArgs
    /\ result = NoResult

ClassifyCall ==
    /\ pc = "ask"
    /\ classification' = classifyNewsByTitle(oracle)
    /\ calls' = [calls EXCEPT !.classify = @ + 1]
    /\ pc' = "parsed"
    /\ UNCHANGED << args, result, groupNumber, feedIdx, limited, entryIdx, entry,
                    extractedContent, finalContent, isAISummarized, newsContent,
                    totalProcessed, totalSaved, totalErrors, summary, folder,
                    snap, outcome, oracle >>

ClassifyNext == ClassifyCall

ClassifySpec == ClassifyInit /\ [][ClassifyNext]_vars

(***************************************************************************)
(* Functions called on their own, for every input within the bounds.       *)
(***************************************************************************)
\* The state a function is called in: nothing of a group run has happened.
StandaloneInit(argsets) ==
    /\ groupNumber = 1
    /\ pc = "call"
    /\ feedIdx = 0
    /\ limited = 0
    /\ entryIdx = 0
    /\ entry = NoEntry
    /\ classification = NoClassification
    /\ extractedContent = << >>
    /\ finalContent = << >>
    /\ isAISummarized = FALSE
    /\ newsContent = NoContent
    /\ totalProcessed = 0
    /\ totalSaved = 0
    /\ totalErrors = 0
    /\ summary = NoSummary
    /\ folder = EmptyFolder
    /\ calls = NoCalls
    /\ snap = [processed |-> 0, saved |-> 0, errors |-> 0, calls |-> NoCalls]
    /\ outcome = "none"
    /\ oracle = ApiNone
    /\ args \in argsets
    /\ result = NoResult

\* The call returns a value.
Returned(value) == [done |-> TRUE, threw |-> FALSE, value |-> value]

\* Feed items for a call of extractNewsContent: every field absent, blank or
\* a paragraph of its own text; the summary may also be a byline alone.
ExtractEntries ==
    { [title |-> << "a" >>, link |-> l, encoded |-> en, content |-> co,
       description |-> de, summary |-> su] :
          l  \in { << >>, << " " >>, << "u" >> },
          en \in { << >>, << " " >>, << "<p>", "e" >> },
          co \in { << >>, << " " >>, << "<p>", "c" >> },
          de \in { << >>, << " " >>, << "<p>", "d" >> },
          su \in { << >>, << " " >>, << "<p>", "s" >>, << "kw" >> } }

\* What the detail page may resolve to: nothing, blanks, a text, a byline
\* alone, a text with a byline under it.
ExtractPages ==
    { << >>, << " " >>, << "pg" >>, << "kw" >>, << "pg", "\n", "kw" >> }

ExtractArgs ==
    { [fn |-> "extractNewsContent", entry |-> e, feedConfig |-> RSS_FEEDS[f],
       detailPage |-> page, cleanThrows |-> t] :
          e \in ExtractEntries, f \in { 1, 2 }, page \in ExtractPages,
          t \in BOOLEAN }

\* extractNewsContent(entry, feedConfig) with Utils.cleanHtmlContent either
\* throwing or cleaning the field it is given.
ExtractCall ==
    /\ pc = "call"
    /\ args.fn = "extractNewsContent"
    /\ result' = Returned(extractNewsContent(args.entry, args.feedConfig,
                     args.detailPage,
                     [raw \in RawFields(args.entry) |->
                         IF args.cleanThrows THEN CleanThrew
                         ELSE Cleaned(cleanHtmlContent(raw))]))
    /\ calls' = [calls EXCEPT !.fetch =
                    IF shouldFetchDetailPage(args.entry, args.feedConfig)
                    THEN @ + 1 ELSE @]
    /\ pc' = "ret"
    /\ UNCHANGED << args, groupNumber, feedIdx, limited, entryIdx, entry,
                    classification, extractedContent, finalContent,
                    isAISummarized, newsContent, totalProcessed, totalSaved,
                    totalErrors, summary, folder, snap, outcome, oracle >>

\* Texts for a call of cleanFooterContent: n lines of body text, one of
\* which (line k, none for k = 0) is a byline.
FooterDoc(n, k) ==
    join([i \in 1..n |-> IF i = k THEN << "kw" >> ELSE << "x" >>], "\n")

FooterArgs ==
    { [fn |-> "cleanFooterContent", content |-> FooterDoc(n, k), lines |-> n,
       byline |-> k] : n \in 1..MaxDocLines, k \in 0..MaxDocLines }

\* cleanFooterContent(content)
FooterCall ==
    /\ pc = "call"
    /\ args.fn = "cleanFooterContent"
    /\ result' = Returned(cleanFooterContent(args.content))
    /\ pc' = "ret"
    /\ UNCHANGED << args, groupNumber, feedIdx, limited, entryIdx, entry,
                    classification, extractedContent, finalContent,
                    isAISummarized, newsContent, totalProcessed, totalSaved,
                    totalErrors, summary, folder, calls, snap, outcome, oracle >>

\* Documents for a call of fetchDetailPageContent: for each of the
\* selectors A and B no fragment, a blank one, or one of 1, 100, 101 or
\* (blanks around 100) 102 characters; a document with an article element;
\* bodies that the body pattern matches and does not match.
FragmentsA ==
    { << >>, << " " >>, << "a" >>, << "A100" >>, << "A100", "a" >>,
      << " ", "A100", " " >> }
FragmentsB ==
    { << >>, << "b" >>, << "B100" >>, << "B100", "b", ".ad" >> }
WholeDocument == << "<b>", "w", "</b>" >>
Documents ==
    { [fragments |-> [sel \in { "A", "B", "article" } |->
                         IF sel = "A" THEN fa ELSE IF sel = "B" THEN fb ELSE << >>],
       body |-> bd, whole |-> WholeDocument] :
          fa \in FragmentsA, fb \in FragmentsB,
          bd \in { NoBody, << >>, << "s" >>, << "w" >> } }
      \cup { [fragments |-> [sel \in { "A", "B", "article" } |->
                                IF sel = "article" THEN << "A100", "a" >> ELSE << >>],
              body |-> << "w" >>, whole |-> WholeDocument] }

DetailConfigs ==
    { [selectors |-> ss, excludeSelectors |-> ex] :
          ss \in { << >>, << "A", "B" >>, << "B", "A" >> },
          ex \in { << >>, << ".ad" >> } }

DetailResponses ==
    { FetchThrew } \cup { Response(code, html) : code \in { 200 }, html \in Documents }
        \cup { Response(code, CHOOSE html \in Documents : html.body = << "w" >>
                                    /\ html.fragments["B"] = << "B100", "b", ".ad" >>
                                    /\ html.fragments["A"] = << "a" >>) :
                   code \in { 301, 404, 500 } }

DetailArgs ==
    { [fn |-> "fetchDetailPageContent", link |-> l, detailPageConfig |-> c,
       response |-> r, throws |-> t] :
          l \in { << >>, << " " >>, << "u" >> }, c \in DetailConfigs,
          r \in DetailResponses, t \in BOOLEAN }

\* fetchDetailPageContent(link, detailPageConfig)
DetailPageCall ==
    /\ pc = "call"
    /\ args.fn = "fetchDetailPageContent"
    /\ result' = Returned(fetchDetailPageContent(args.link, args.detailPageConfig,
                                                  args.response, args.throws))
    /\ pc' = "ret"
    /\ UNCHANGED << args, groupNumber, feedIdx, limited, entryIdx, entry,
                    classification, extractedContent, finalContent,
                    isAISummarized, newsContent, totalProcessed, totalSaved,
                    totalErrors, summary, folder, calls, snap, outcome, oracle >>

CallInit == StandaloneInit(ExtractArgs \cup FooterArgs \cup DetailArgs)

CallNext ==
    \/ ExtractCall
    \/ FooterCall
    \/ DetailPageCall

CallSpec == CallInit /\ [][CallNext]_vars

(***************************************************************************)
(* Gmail housekeeping (src/calendar.js 118-255).                           *)
(***************************************************************************)
\* const BATCH_SIZE = 400 (lines 126 and 194).
BATCH_SIZE == 400

\* const DELAY_DAYS (line 125: 3, line 193: 365).
DELAY_DAYS(fn) == IF fn = "gmailAutoArchive" THEN 3 ELSE 365

\* Utils.getDateDaysAgo(days), in days, the run being at day 0.
getDateDaysAgo(days) == 0 - days

\* Sizes of what GmailApp.getInboxThreads / GmailApp.search has to offer.
MailboxSizes ==
    { 0, 1, BATCH_SIZE - 1 } \cup { BATCH_SIZE + k : k \in 0..MaxExtraThreads }

\* getInboxThreads(0, BATCH_SIZE).length, allThreads.slice(0, BATCH_SIZE).length
batchLength(n) == IF n < BATCH_SIZE THEN n ELSE BATCH_SIZE

\* The dates a thread's last message may have, around the cutoff and today.
LastMessageDates(fn) ==
    { getDateDaysAgo(DELAY_DAYS(fn)) + d : d \in { -1, 0, 1 } } \cup { 0 }

\* A mutant of shouldAct: the stars are not looked at.
shouldAct_ignoreStars(lastMessageDate, hasStarredMessages, cutoffDate) ==
    lastMessageDate < cutoffDate

\* Lines 156 and 227: lastMessageDate < cutoffDate && !hasStarredMessages
shouldAct(lastMessageDate, hasStarredMessages, cutoffDate) ==
    lastMessageDate < cutoffDate /\ ~hasStarredMessages

MailArgs ==
    { [fn |-> f, mailbox |-> n] :
         f \in { "gmailAutoArchive", "gmailAutoTrash" }, n \in MailboxSizes }

\* No thread has been looked at yet.
NoThread == [lastMessageDate |-> 0, hasStarredMessages |-> FALSE]

\* Lines 135-141 and 203-211: the batch is read; an empty batch ends the run.
MailStart ==
    /\ pc = "call"
    /\ args.fn \in { "gmailAutoArchive", "gmailAutoTrash" }
    /\ LET n == batchLength(args.mailbox) IN
       /\ result' = [done |-> n = 0, threw |-> FALSE, threads |-> n,
                     examined |-> 0, thread |-> NoThread, moved |-> FALSE,
                     cutoffDate |-> getDateDaysAgo(DELAY_DAYS(args.fn))]
       /\ pc' = IF n = 0 THEN "ret" ELSE "threads"
    /\ UNCHANGED << args, groupNumber, feedIdx, limited, entryIdx, entry,
                    classification, extractedContent, finalContent,
                    isAISummarized, newsContent, totalProcessed, totalSaved,
                    totalErrors, summary, folder, calls, snap, outcome, oracle >>

\* Lines 151-170 and 221-241: the callback of threads.forEach for the next
\* thread; moveToArchive / moveToTrash may throw, which ends the run.
MailThread ==
    /\ pc = "threads"
    /\ result.examined < result.threads
    /\ \E lastMessageDate \in LastMessageDates(args.fn),
          hasStarredMessages \in BOOLEAN, moveOk \in BOOLEAN :
          LET act == shouldAct(lastMessageDate, hasStarredMessages, result.cutoffDate)
          IN  /\ result' = [result EXCEPT
                               !.examined = @ + 1,
                               !.thread = [lastMessageDate |-> lastMessageDate,
                                           hasStarredMessages |-> hasStarredMessages],
                               !.moved = act /\ moveOk,
                               !.threw = act /\ ~moveOk,
                               !.done = act /\ ~moveOk]
              /\ pc' = IF act /\ ~moveOk THEN "ret" ELSE "threads"
    /\ UNCHANGED << args, groupNumber, feedIdx, limited, entryIdx, entry,
                    classification, extractedContent, finalContent,
                    isAISummarized, newsContent, totalProcessed, totalSaved,
                    totalErrors, summary, folder, calls, snap, outcome, oracle >>

\* Lines 173-183 and 244-254: the batch is through, the summary is logged.
MailEnd ==
    /\ pc = "threads"
    /\ result.examined = result.threads
    /\ result' = [result EXCEPT !.done = TRUE, !.moved = FALSE]
    /\ pc' = "ret"
    /\ UNCHANGED << args, groupNumber, feedIdx, limited, entryIdx, entry,
                    classification, extractedContent, finalContent,
                    isAISummarized, newsContent, totalProcessed, totalSaved,
                    totalErrors, summary, folder, calls, snap, outcome, oracle >>

MailInit == StandaloneInit(MailArgs)

MailNext ==
    \/ MailStart
    \/ MailThread
    \/ MailEnd

MailSpec == MailInit /\ [][MailNext]_vars

(***************************************************************************)
(* Google Drive cleaning (src/unnamed/part_000 230-538).                   *)
(* Times are in minutes, the call being made at minute args.now; a file    *)
(* name and a time string are sequences of tokens.                         *)
(***************************************************************************)
\* Utils.getDateMinutesAgo(minutes), in minutes, the call being at minute 0.
getDateMinutesAgo(minutes) == 0 - minutes

Digits == << "0", "1", "2", "3", "4", "5", "6", "7", "8", "9" >>
IsDigit(tok) == \E d \in 1..Len(Digits) : Digits[d] = tok
DigitValue(tok) == (CHOOSE d \in 1..Len(Digits) : Digits[d] = tok) - 1

RECURSIVE parseInt(_)
\* parseInt(digits, 10)
parseInt(digits) ==
    IF digits = << >> THEN 0
    ELSE 10 * parseInt(SubSeq(digits, 1, Len(digits) - 1)) + DigitValue(digits[Len(digits)])

\* timeStr.match(/^(\d+)([dhms])$/)
matchesDuration(timeStr) ==
    /\ Len(timeStr) >= 2
    /\ timeStr[Len(timeStr)] \in { "d", "h", "m", "s" }
    /\ \A i \in 1..(Len(timeStr) - 1) : IsDigit(timeStr[i])

\* The strings new Date(timeStr) understands, with the minute they name.
DateStrings == { << "2020-01-01" >> }
DateValue(timeStr) == 26297280

\* Math.ceil(value / 60)
ceilDiv60(value) == (value + 59) \div 60

\* UtilsGoogleDrive._parseTimeString: the minute of the threshold; a string
\* that is neither a duration nor a date ends in the catch, which returns 0.
parseTimeString(timeStr, now) ==
    IF ~matchesDuration(timeStr)
    THEN IF timeStr \in DateStrings THEN DateValue(timeStr) ELSE 0
    ELSE LET value == parseInt(SubSeq(timeStr, 1, Len(timeStr) - 1))
             unit  == timeStr[Len(timeStr)]
         IN  CASE unit = "d" -> now + getDateDaysAgo(value) * 24 * 60
               [] unit = "h" -> now + getDateMinutesAgo(value * 60)
               [] unit = "m" -> now + getDateMinutesAgo(value)
               [] unit = "s" -> now + getDateMinutesAgo(ceilDiv60(value))

\* UtilsGoogleDrive.isFileOlderThan for a threshold given as a string.
isFileOlderThan(file, timeThreshold, timeField, now) ==
    LET fileTime == IF timeField = "dateCreated" THEN file.dateCreated
                    ELSE file.lastUpdated
    IN  fileTime < parseTimeString(timeThreshold, now)

\* fileName.lastIndexOf('.'): 0 when there is no dot.
lastDotIndex(fileName) ==
    IF \A i \in 1..Len(fileName) : fileName[i] # "."
    THEN 0
    ELSE CHOOSE i \in 1..Len(fileName) :
            fileName[i] = "." /\ \A j \in (i + 1)..Len(fileName) : fileName[j] # "."

\* String.prototype.toLowerCase
toLowerCase(s) == [i \in 1..Len(s) |-> IF s[i] = "TXT" THEN "txt" ELSE s[i]]

commonDomainExtensions == { "com", "net", "cn", "gov", "org", "edu" }

\* The no_extension case of _applyFileFilter (lines 436-462).
noExtension(fileName) ==
    LET dot == lastDotIndex(fileName) IN
    \/ dot = 0
    \/ dot = Len(fileName)
    \/ fileName[dot + 1] = " "
    \/ toLowerCase(fileName)[dot + 1] \in commonDomainExtensions

\* The has_extension case (lines 464-469): substring(lastIndexOf('.')) is
\* the whole name when there is no dot.
hasExtension(fileName, extensions) ==
    \/ extensions = {}
    \/ LET dot     == lastDotIndex(fileName)
           fileExt == toLowerCase(IF dot = 0 THEN fileName
                                  ELSE SubSeq(fileName, dot, Len(fileName)))
       IN  \E ext \in extensions : fileExt = toLowerCase(ext)

\* Utils.hasExcludedChars(text, excludedArray)
hasExcludedChars(text, excludedArray) ==
    \E c \in excludedArray : \E i \in 1..Len(text) : text[i] = c

\* The patterns of the model: none, '^report_', and '(' which new RegExp
\* rejects with an exception.
InvalidPatterns == { "(" }
regexTest(pattern, fileName) ==
    pattern = "^report_" /\ fileName # << >> /\ fileName[1] = "report_"

KnownFilterTypes ==
    { "time", "filename_pattern", "exclude_chars", "no_extension",
      "has_extension", "min_size", "max_size" }

\* A mutant of unknownFilter: a filter of an unknown type matches nothing.
unknownFilter_rejects(filter) == FALSE

\* The default case of the switch (lines 481-483).
unknownFilter(filter) == TRUE

\* A mutant of filterThrew: the exception counts as a match.
filterThrew_matches(filter) == TRUE

\* The catch of _applyFileFilter (lines 485-488).
filterThrew(filter) == FALSE

\* UtilsGoogleDrive._applyFileFilter; a field a filter does not have is "".
applyFileFilter(file, filter, now) ==
    CASE filter.type = "time" ->
            isFileOlderThan(file,
                            IF filter.olderThan = << >> THEN << "0", "d" >>
                            ELSE filter.olderThan,
                            IF filter.field = "" THEN "lastUpdated" ELSE filter.field,
                            now)
      [] filter.type = "filename_pattern" ->
            IF filter.pattern = "" THEN TRUE
            ELSE IF filter.pattern \in InvalidPatterns THEN filterThrew(filter)
            ELSE regexTest(filter.pattern, file.name)
      [] filter.type = "exclude_chars" ->
            IF filter.chars = {} THEN TRUE
            ELSE ~hasExcludedChars(file.name, filter.chars)
      [] filter.type = "no_extension" -> noExtension(file.name)
      [] filter.type = "has_extension" -> hasExtension(file.name, filter.extensions)
      [] filter.type = "min_size" -> file.size >= filter.bytes
      [] filter.type = "max_size" ->
            IF filter.bytes = 0 THEN TRUE ELSE file.size <= filter.bytes
      [] OTHER -> unknownFilter(filter)

\* Lines 288-295: the first filter that fails ends the loop over the filters.
shouldAction(file, filters, now) ==
    \A k \in 1..Len(filters) : applyFileFilter(file, filters[k], now)

\* A mutant of performs: a dry run acts as well.
performs_dryRunToo(config) == TRUE

\* Line 311: if (!config.dryRun)
performs(config) == ~config.dryRun

\* The state of the while loop of cleanFilesInFolder.
ScanStart(files) ==
    [files |-> files, next |-> 1, processed |-> 0, actioned |-> 0,
     skipped |-> 0, threw |-> FALSE]

RECURSIVE scan(_, _, _, _)
\* Lines 279-332: the while loop.  threwAt is the place of the file whose
\* reading throws (0: none), which ends the function in its outer catch.
scan(st, config, now, threwAt) ==
    IF ~(st.next <= Len(st.files)
           /\ (config.maxFiles = 0 \/ st.processed < config.maxFiles))
    THEN st
    ELSE IF st.next = threwAt THEN [st EXCEPT !.threw = TRUE]
    ELSE LET file == st.files[st.next]
             seen == [st EXCEPT !.next = @ + 1, !.processed = @ + 1]
         IN  IF file.trashed THEN scan(seen, config, now, threwAt)
             ELSE IF ~shouldAction(file, config.filters, now)
             THEN scan(seen, config, now, threwAt)
             ELSE LET counted == [seen EXCEPT !.actioned = @ + 1] IN
                  IF ~performs(config) \/ config.action # "trash"
                  THEN scan(counted, config, now, threwAt)
                  ELSE IF file.trashOk
                  THEN scan([counted EXCEPT !.files[st.next].trashed = TRUE],
                            config, now, threwAt)
                  ELSE scan([counted EXCEPT !.skipped = @ + 1],
                            config, now, threwAt)

\* UtilsGoogleDrive.cleanFilesInFolder: the summary it returns and the files
\* of the folder afterwards.
cleanFilesInFolder(found, files, config, now, threwAt) ==
    IF ~found
    THEN [success |-> FALSE, processed |-> 0, actioned |-> 0, skipped |-> 0,
          dryRun |-> config.dryRun, files |-> files]
    ELSE LET st == scan(ScanStart(files), config, now, threwAt) IN
         IF st.threw
         THEN [success |-> FALSE, processed |-> 0, actioned |-> 0, skipped |-> 0,
               dryRun |-> config.dryRun, files |-> st.files]
         ELSE [success |-> TRUE, processed |-> st.processed,
               actioned |-> st.actioned, skipped |-> st.skipped,
               dryRun |-> config.dryRun, files |-> st.files]

\* The filters of the model; a field a filter does not have is "" (for a
\* time string: the empty string, for a set of characters or extensions: the
\* empty set, for bytes: 0).
Filter(type) ==
    [type |-> type, olderThan |-> << >>, field |-> "", pattern |-> "",
     chars |-> {}, extensions |-> {}, bytes |-> 0]

Filters ==
    { [Filter("time") EXCEPT !.olderThan = << "3", "0", "d" >>, !.field = "lastUpdated"],
      [Filter("time") EXCEPT !.olderThan = << "1", "2", "h" >>, !.field = "dateCreated"],
      [Filter("time") EXCEPT !.olderThan = << "soon" >>],
      Filter("time"),
      [Filter("filename_pattern") EXCEPT !.pattern = "^report_"],
      [Filter("filename_pattern") EXCEPT !.pattern = "("],
      [Filter("exclude_chars") EXCEPT !.chars = { "pin" }],
      Filter("no_extension"),
      [Filter("has_extension") EXCEPT !.extensions = { << ".", "txt" >> }],
      [Filter("min_size") EXCEPT !.bytes = 1024],
      [Filter("max_size") EXCEPT !.bytes = 1024],
      Filter("regex") }

\* The filters that are combined with one another: an age, a name pattern,
\* a pattern that throws, and an unknown type.
CombinedFilters ==
    { [Filter("time") EXCEPT !.olderThan = << "3", "0", "d" >>, !.field = "lastUpdated"],
      [Filter("filename_pattern") EXCEPT !.pattern = "^report_"],
      [Filter("filename_pattern") EXCEPT !.pattern = "("],
      Filter("regex") }

\* No filter, every filter alone, and the lists of the combined filters.
FilterLists ==
    { << >> } \cup { << f >> : f \in Filters }
        \cup UNION { [1..n -> CombinedFilters] : n \in 2..MaxFilters }

\* The minute of the call, counted from 1970.
Nows == { 29900000 }

\* The files of the model, by age in days: a report of 31 days whose
\* setTrashed works or throws, a note of one day without an extension, a
\* pinned file already in the trash, and a young empty report.
DriveFile(name, days, size, trashed, trashOk) ==
    [name |-> name, age |-> days, size |-> size, trashed |-> trashed,
     trashOk |-> trashOk]

DriveFiles ==
    { DriveFile(<< "report_", ".", "TXT" >>, 31, 2048, FALSE, TRUE),
      DriveFile(<< "report_", ".", "TXT" >>, 31, 2048, FALSE, FALSE),
      DriveFile(<< "notes" >>, 1, 10, FALSE, TRUE),
      DriveFile(<< "pin", "site", ".", "com" >>, 31, 1024, TRUE, TRUE),
      DriveFile(<< "report_", ".", "csv" >>, 0, 0, FALSE, TRUE) }

\* The files that stand together in a folder of several files: the old
\* report, the young note and the file already in the trash.
CombinedFiles ==
    { DriveFile(<< "report_", ".", "TXT" >>, 31, 2048, FALSE, TRUE),
      DriveFile(<< "notes" >>, 1, 10, FALSE, TRUE),
      DriveFile(<< "pin", "site", ".", "com" >>, 31, 1024, TRUE, TRUE) }

\* The empty folder, every file alone, and the folders of the combined
\* files.
FolderContents ==
    { << >> } \cup { << f >> : f \in DriveFiles }
        \cup UNION { [1..n -> CombinedFiles] : n \in 2..MaxFiles }

\* The file as the call at minute now sees it.
AtTime(f, now) ==
    [name |-> f.name, lastUpdated |-> now - f.age * 24 * 60,
     dateCreated |-> now - (f.age + 1) * 24 * 60, size |-> f.size,
     trashed |-> f.trashed, trashOk |-> f.trashOk]

\* The limit and the failing read of a call: a limit and a failing read are
\* not combined.
LimitAndThrow == { << 0, 0 >>, << 0, 2 >>, << 1, 0 >> }

\* Whether the folder is found, and the action: a folder that is not found
\* is tried with one action.
FoundAndAction == { << TRUE, "trash" >>, << TRUE, "delete" >>, << FALSE, "trash" >> }

\* The calls of the model.
CleanArgs ==
    { [fn |-> "cleanFilesInFolder", found |-> fa[1], files |-> fs,
       config |-> [filters |-> fl, action |-> fa[2], maxFiles |-> mt[1],
                   dryRun |-> d],
       now |-> n, threwAt |-> mt[2]] :
         fa \in FoundAndAction, fs \in FolderContents, fl \in FilterLists,
         mt \in LimitAndThrow, d \in BOOLEAN, n \in Nows }

\* The files of the call as it sees them.
ArgFiles == [i \in 1..Len(args.files) |-> AtTime(args.files[i], args.now)]

CleanCall ==
    /\ pc = "call"
    /\ args.fn = "cleanFilesInFolder"
    /\ result' = Returned(cleanFilesInFolder(args.found, ArgFiles, args.config,
                                             args.now, args.threwAt))
    /\ pc' = "ret"
    /\ UNCHANGED << args, groupNumber, feedIdx, limited, entryIdx, entry,
                    classification, extractedContent, finalContent,
                    isAISummarized, newsContent, totalProcessed, totalSaved,
                    totalErrors, summary, folder, calls, snap, outcome, oracle >>

CleanInit == StandaloneInit(CleanArgs)

CleanNext == CleanCall

CleanSpec == CleanInit /\ [][CleanNext]_vars

(***************************************************************************)
(* Utils.extractElement, tag by tag (src/unnamed/part_001 293-406).        *)
(* A page is a sequence of tokens: the tags <div>, <div class="c">,        *)
(* <div data-u="/a"> (a slash inside an attribute), <div/>, </div>, and a  *)
(* run of text.                                                            *)
(***************************************************************************)
\* options.maxDepth || 100 (line 298).
DefaultMaxDepth == 100

HtmlTokens == { "<div>", "<div class=c>", "<div data-u=/a>", "<div/>", "</div>", "x" }

\* html.substr(index, 4) === '<div'
startsDiv(tok) == tok \in { "<div>", "<div class=c>", "<div data-u=/a>", "<div/>" }

\* tag.includes('/')
includesSlash(tok) == tok \in { "<div data-u=/a>", "<div/>" }

\* A mutant of countsAsOpen: every tag that starts with <div is an opening.
countsAsOpen_everyDiv(tok) == startsDiv(tok)

\* Lines 362-369: a tag that starts with <div raises the depth unless it
\* holds a slash.
countsAsOpen(tok) == startsDiv(tok) /\ ~includesSlash(tok)

\* html.match(startPattern) for the selector '.c': the place of the first
\* <div ... class="c" ...> tag, 0 when there is none.
startMatch(html) ==
    IF \A i \in 1..Len(html) : html[i] # "<div class=c>" THEN 0
    ELSE CHOOSE i \in 1..Len(html) :
            html[i] = "<div class=c>" /\ \A j \in 1..(i - 1) : html[j] # "<div class=c>"

RECURSIVE scanDiv(_, _, _, _, _)
\* Lines 351-386: the while loop for a div selector, from index on at the
\* given depth; the content when the depth is back at 0, '' when the text
\* or maxDepth is reached.
scanDiv(html, startIndex, index, depth, maxDepth) ==
    IF ~(index <= Len(html) /\ depth < maxDepth) THEN << >>
    ELSE IF startsDiv(html[index])
    THEN scanDiv(html, startIndex, index + 1,
                 IF countsAsOpen(html[index]) THEN depth + 1 ELSE depth, maxDepth)
    ELSE IF html[index] = "</div>"
    THEN IF depth - 1 = 0
         THEN SubSeq(html, startIndex + 1, index - 1)
         ELSE scanDiv(html, startIndex, index + 1, depth - 1, maxDepth)
    ELSE scanDiv(html, startIndex, index + 1, depth, maxDepth)

\* Utils.extractElement(html, '.c', { maxDepth }) with handleNesting on.
extractElementByClass(html, maxDepth) ==
    IF html = << >> \/ startMatch(html) = 0 THEN << >>
    ELSE scanDiv(html, startMatch(html), startMatch(html), 0,
                 IF maxDepth = 0 THEN DefaultMaxDepth ELSE maxDepth)

\* The pages of the model.
Pages == UNION { [1..n -> HtmlTokens] : n \in 0..MaxHtmlLen }

ElementArgs ==
    { [fn |-> "extractElement", html |-> h, maxDepth |-> d] :
         h \in Pages, d \in { 0, 2 } }

ElementCall ==
    /\ pc = "call"
    /\ args.fn = "extractElement"
    /\ result' = Returned(extractElementByClass(args.html, args.maxDepth))
    /\ pc' = "ret"
    /\ UNCHANGED << args, groupNumber, feedIdx, limited, entryIdx, entry,
                    classification, extractedContent, finalContent,
                    isAISummarized, newsContent, totalProcessed, totalSaved,
                    totalErrors, summary, folder, calls, snap, outcome, oracle >>

ElementInit == StandaloneInit(ElementArgs)

ElementNext == ElementCall

ElementSpec == ElementInit /\ [][ElementNext]_vars

(***************************************************************************)
(* HTTP requests with redirects (src/utils_network.js 35-95).              *)
(***************************************************************************)
\* options.maxRedirects || 5 (line 39), options.maximumRedirects || 5 (68).
DefaultMaximumRedirects == 5

maximumRedirects(maxRedirects) ==
    IF maxRedirects = 0 THEN DefaultMaximumRedirects ELSE maxRedirects

\* Line 66: the status codes handled as a redirect.
RedirectCodes == { 301, 302, 307, 308 }

\* What UrlFetchApp.fetch may do: throw (a network failure), or answer with a
\* status code, with or without a Location header.
FetchError == [threw |-> TRUE, code |-> 0, location |-> FALSE]
HttpResponse(code, location) == [threw |-> FALSE, code |-> code, location |-> location]
HttpResponses ==
    { FetchError }
        \cup { HttpResponse(c, TRUE) : c \in RedirectCodes \cup { 200, 303, 404, 500 } }
        \cup { HttpResponse(301, FALSE) }

\* A mutant of tooManyRedirects: one redirect more is followed.
tooManyRedirects_oneMore(redirectCount, maxRedirects) ==
    redirectCount > maximumRedirects(maxRedirects)

\* Line 68: redirectCount >= (options.maximumRedirects || 5)
tooManyRedirects(redirectCount, maxRedirects) ==
    redirectCount >= maximumRedirects(maxRedirects)

RedirectArgs ==
    { [fn |-> "fetchWithRetry", maxRedirects |-> m] : m \in 0..MaxRedirects }

\* Lines 35-52: fetchWithRetry builds the configuration and calls
\* _handleRedirects with redirectCount = 0.
FetchWithRetry ==
    /\ pc = "call"
    /\ args.fn = "fetchWithRetry"
    /\ result' = [done |-> FALSE, threw |-> FALSE, requests |-> 0,
                  redirectCount |-> 0, response |-> FetchError]
    /\ pc' = "request"
    /\ UNCHANGED << args, groupNumber, feedIdx, limited, entryIdx, entry,
                    classification, extractedContent, finalContent,
                    isAISummarized, newsContent, totalProcessed, totalSaved,
                    totalErrors, summary, folder, calls, snap, outcome, oracle >>

\* Lines 62-95: one call of _handleRedirects: the request, then the
\* response is returned, or followed when it is a redirect with a Location
\* header within the limit, or an error is thrown (and thrown on by the
\* catch of every call on the stack).
HandleRedirects ==
    /\ pc = "request"
    /\ \E response \in HttpResponses :
          LET redirect == ~response.threw /\ response.code \in RedirectCodes
              throws   == \/ response.threw
                          \/ redirect /\ tooManyRedirects(result.redirectCount,
                                                          args.maxRedirects)
                          \/ redirect /\ ~response.location
          IN  /\ result' = [done |-> throws \/ ~redirect,
                            threw |-> throws,
                            requests |-> result.requests + 1,
                            redirectCount |-> IF redirect /\ ~throws
                                              THEN result.redirectCount + 1
                                              ELSE result.redirectCount,
                            response |-> response]
              /\ pc' = IF throws \/ ~redirect THEN "ret" ELSE "request"
    /\ UNCHANGED << args, groupNumber, feedIdx, limited, entryIdx, entry,
                    classification, extractedContent, finalContent,
                    isAISummarized, newsContent, totalProcessed, totalSaved,
                    totalErrors, summary, folder, calls, snap, outcome, oracle >>

RedirectInit == StandaloneInit(RedirectArgs)

RedirectNext ==
    \/ FetchWithRetry
    \/ HandleRedirects

RedirectSpec == RedirectInit /\ [][RedirectNext]_vars

\* Every request of UrlFetchApp.fetch ends (it has a timeout), and the
\* script goes on with the next statement.
FairRedirectSpec == RedirectSpec /\ WF_vars(RedirectNext)

(***************************************************************************)
(* Properties.                                                             *)
(***************************************************************************)
\* The record stored under the file name derived from a title.
Stored(title) ==
    LET files == getFilesByName(folder, newsFileName(title))
    IN  folder[CHOOSE i \in files : \A j \in files : i <= j].content

\* The callback for the current entry has just returned.
ItemDone == pc = "entry" /\ outcome \notin { "none", "nofeed" }

\* A title with nothing but blanks in it (the empty title included).
BlankTitle(t) == \A i \in 1..Len(t) : t[i] = " "

\* The stages of a callback after the classification.
AfterClassification == { "extract", "summarize", "save" }

\* C1: an item whose classification says not to keep it never reaches content
\* resolution, summarization or the write, and when its callback has returned
\* no write has been made for it.
C1_DeclinedNeverWritten ==
    (classification # NoClassification /\ ~classification.shouldSave)
        => /\ pc \notin AfterClassification
           /\ calls.write = snap.calls.write
           /\ calls.summarize = snap.calls.summarize

C1_Witness ==
    /\ ItemDone
    /\ outcome = "declined"
    /\ classification = [shouldSave |-> FALSE, category |-> << "fin" >>]
    /\ entry.link = << "u" >>

\* The response holds no comma.
NoComma(t) == \A i \in 1..Len(t) : t[i] # ","

\* The flag of a response: what stands before the first comma once the
\* reasoning markup is stripped, without surrounding blanks.
FlagOf(t) == trim(split(cleanThinkingTags(t), ",")[1])

\* C2: the classifier fails closed: a failed call, a response without a comma
\* and a response whose flag is neither 0 nor 1 all give keep = false with the
\* failure category.
C2_FailsClosed ==
    (pc = "parsed"
       /\ (\/ ~oracle.ok
           \/ oracle.text = << >>
           \/ NoComma(oracle.text)
           \/ FlagOf(oracle.text) \notin { << "0" >>, << "1" >> }))
        => classification = ClassificationFailed

C2_Witness ==
    /\ pc = "parsed"
    /\ oracle = ApiReply(<< "2", ",", "fin" >>)
    /\ classification = ClassificationFailed

C4_ShortNeverPersisted ==
    /\ \A i \in 1..Len(folder) : TextLen(folder[i].content.content) >= minContentLength
    /\ pc = "save" => TextLen(newsContent.content) >= minContentLength
    /\ (ItemDone /\ extractedContent # << >>
          /\ (\/ TextLen(extractedContent) < minContentLength
              \/ (isAISummarized /\ TextLen(finalContent) < minContentLength)))
        => /\ outcome = "short"
           /\ calls.write = snap.calls.write
           /\ totalErrors = snap.errors

C4_Witness ==
    /\ ItemDone
    /\ outcome = "short"
    /\ classification.shouldSave
    /\ isAISummarized
    /\ TextLen(finalContent) = minContentLength - 1

\* C5: a stored record is marked as an AI summary exactly when the resolved
\* body was longer than the maximum; then the summarizer was called once,
\* otherwise it was not called and the stored body is the resolved body.
C5_CondensedIffLong ==
    (ItemDone /\ outcome = "saved")
        => LET rec  == Stored(entry.title)
               long == TextLen(extractedContent) > maxContentLength
           IN  /\ (rec.prefix = "AI summary") <=> long
               /\ (rec.prefix = "original") <=> ~long
               /\ long => calls.summarize = snap.calls.summarize + 1
               /\ ~long => /\ calls.summarize = snap.calls.summarize
                           /\ rec.content = extractedContent

C5_Witness ==
    /\ ItemDone
    /\ outcome = "saved"
    /\ TextLen(extractedContent) = maxContentLength + 1
    /\ ~askGroq(oracle).ok
    /\ Stored(entry.title).prefix = "AI summary"

\* C6: when the summarization request fails the body stays the resolved
\* body: the item goes on to the write, and the record written holds the
\* resolved body.
C6_SummarizerFailsOpen ==
    (isAISummarized /\ ~askGroq(oracle).ok)
        => /\ finalContent = extractedContent
           /\ pc = "save" \/ (ItemDone /\ outcome \in { "saved", "savefailed", "threw" })
           /\ newsContent.content = extractedContent
           /\ (ItemDone /\ outcome = "saved")
                 => Stored(entry.title).content = extractedContent

C6_Witness ==
    /\ ItemDone
    /\ outcome = "saved"
    /\ isAISummarized
    /\ oracle = ApiFailure
    /\ TextLen(extractedContent) > maxContentLength
    /\ Stored(entry.title).content = extractedContent

\* C7: an exception in a callback leaves the loop at the next entry of the
\* same feed, an exception in a feed leaves the run at the next feed; no
\* entry within the limit is jumped over, a feed is left only by its own
\* exception or with all its entries behind, and a run that has reached its
\* feeds ends with its summary logged after the last feed.
C7_FailureIsolation ==
    /\ [][(pc \in { "classify", "extract", "summarize", "save" } /\ outcome' = "threw")
             => (pc' = "entry" /\ entryIdx' = entryIdx + 1 /\ feedIdx' = feedIdx
                   /\ limited' = limited)]_vars
    /\ [][(pc = "feed" /\ totalErrors' # totalErrors)
             => (feedIdx' = feedIdx + 1
                   /\ pc' = IF feedIdx < Len(targetFeeds) THEN "feed" ELSE "summary")]_vars
    /\ [][(entryIdx' # entryIdx /\ pc # "feed") => entryIdx' = entryIdx + 1]_vars
    /\ [][(feedIdx' # feedIdx /\ pc # "folder")
             => (feedIdx' = feedIdx + 1
                   /\ (pc = "feed" \/ (pc = "entry" /\ entryIdx > limited)))]_vars
    /\ (pc = "feed")
          ~> (pc = "done" /\ summary.logged /\ feedIdx = Len(targetFeeds) + 1)

C7_Witness ==
    /\ groupNumber = 2
    /\ totalErrors = 1
    /\ outcome = "running"
    /\ entryIdx = 2
    /\ pc = "save"

\* C8 as stated: an item whose write failed is counted in the error counter.
C8_SaveFailureCounted ==
    (ItemDone /\ outcome = "savefailed") => totalErrors = snap.errors + 1

\* The skipped count the summary reports: totalProcessed - totalSaved.
Skipped == totalProcessed - totalSaved

\* C9 as stated: an item rejected for its title or for its length adds one to
\* the skipped count and nothing to the error count.
C9_RejectedCountedSkipped ==
    (ItemDone /\ (BlankTitle(entry.title) \/ outcome = "short"))
        => /\ Skipped = (snap.processed - snap.saved) + 1
           /\ totalErrors = snap.errors

\* C9 amended: an item rejected for its length adds one to the skipped count
\* and nothing to the error count; an item rejected for its title changes no
\* counter; the summary reports processed - saved as skipped.
C9_ShortSkippedBlankUncounted ==
    /\ (ItemDone /\ outcome = "short")
          => /\ Skipped = (snap.processed - snap.saved) + 1
             /\ totalErrors = snap.errors
    /\ (ItemDone /\ BlankTitle(entry.title))
          => /\ totalProcessed = snap.processed
             /\ totalSaved = snap.saved
             /\ totalErrors = snap.errors
    /\ (pc = "done" /\ Len(targetFeeds) > 0)
          => /\ summary.skipped = totalProcessed - totalSaved
             /\ summary.errors = totalErrors

C9_Witness ==
    /\ ItemDone
    /\ outcome = "blank"
    /\ entry.title = << " " >>
    /\ snap.processed = 1
    /\ totalProcessed = 1

\* C10: an entry whose title is empty or blank causes no classifier call, no
\* detail-page fetch, no summarizer call and no write, and leaves the error
\* counter as it was.
C10_BlankTitleNoEffect ==
    (ItemDone /\ BlankTitle(entry.title))
        => /\ outcome = "blank"
           /\ calls = snap.calls
           /\ totalErrors = snap.errors
           /\ classification = NoClassification
           /\ oracle = ApiNone

C10_Witness ==
    /\ ItemDone
    /\ outcome = "blank"
    /\ entry.title = << " " >>
    /\ entry.link = << "u" >>
    /\ calls.classify > 0

\* C11: persistence is create-or-overwrite by the derived file name.  The
\* folder of a run starts without files, so every file in it was created by
\* a save into a folder without that name: no two files ever share a name,
\* and a successful save under a name the folder already holds leaves
\* exactly one file of that name, holding the record just saved, and every
\* other file as it was; a save under a new name adds one file.
C11_CreateOrOverwrite ==
    /\ [](\A i, j \in 1..Len(folder) : folder[i].name = folder[j].name => i = j)
    /\ [][(pc = "save" /\ totalSaved' = totalSaved + 1)
             => LET name == newsFileName(entry.title) IN
                /\ Cardinality(getFilesByName(folder', name)) = 1
                /\ Stored(entry.title)' = newsContent
                /\ Len(folder') = Len(folder)
                                    + (IF getFilesByName(folder, name) = {} THEN 1 ELSE 0)
                /\ \A i \in 1..Len(folder) :
                       folder[i].name # name => folder'[i] = folder[i]]_vars

C11_Witness ==
    /\ ItemDone
    /\ outcome = "saved"
    /\ totalSaved = 2
    /\ Len(folder) = 1
    /\ entry.title = << "a", "?" >>
    /\ folder[1].name = << "a", ".txt" >>
    /\ folder[1].content.title = << "a", "?" >>
    /\ folder[1].content.prefix = "AI summary"

\* C12 as stated: an item's content is resolved before its title is
\* classified: once the classifier has been called for the item, its
\* resolved content is there.
C12_ResolvedBeforeClassified ==
    (pc \in { "entry", "extract" } /\ outcome # "none"
       /\ calls.classify > snap.calls.classify)
        => extractedContent # << >>

\* C12 amended: the stages of an item run in the order classifier, content
\* resolution, summarizer, write.  The classifier is called first, before
\* any fetch; the content is resolved only for an item to keep, after its
\* one classifier call; the summarizer runs only on resolved content; the
\* write comes last, after the summarizer call of an item that has one.
C12_ClassifiedBeforeResolved ==
    /\ pc = "classify"
          => (calls = snap.calls /\ extractedContent = << >>)
    /\ pc = "extract"
          => /\ classification.shouldSave
             /\ calls = [snap.calls EXCEPT !.classify = @ + 1]
             /\ extractedContent = << >>
    /\ pc = "summarize"
          => /\ classification.shouldSave
             /\ extractedContent # << >>
             /\ calls.classify = snap.calls.classify + 1
             /\ calls.summarize = snap.calls.summarize
             /\ calls.write = snap.calls.write
    /\ pc = "save"
          => /\ classification.shouldSave
             /\ extractedContent # << >>
             /\ calls.classify = snap.calls.classify + 1
             /\ calls.summarize = snap.calls.summarize
                                     + (IF isAISummarized THEN 1 ELSE 0)
             /\ calls.write = snap.calls.write
    /\ (ItemDone /\ outcome = "declined")
          => (calls.fetch = snap.calls.fetch /\ extractedContent = << >>)

C12_Witness ==
    /\ pc = "save"
    /\ isAISummarized
    /\ calls.classify = snap.calls.classify + 1
    /\ calls.fetch = snap.calls.fetch + 1
    /\ calls.summarize = snap.calls.summarize + 1
    /\ classification = [shouldSave |-> TRUE, category |-> << "fin" >>]

\* A text holds a token.
Has(t, tok) == \E i \in 1..Len(t) : t[i] = tok

\* The call of fn has returned.
Ret(fn) == pc = "ret" /\ args.fn = fn

\* C13: the priority chain of extractNewsContent.  With detail pages enabled
\* for the source, a link that is not blank and a page that is not blank, the
\* result is the page (after the footer is cleaned); otherwise it is the
\* first field that is not blank, in the order content:encoded, content,
\* description, summary (cleaned, then its footer cleaned); with no such
\* field it is the extraction-failed sentinel.  A text that comes out empty
\* is the empty-content sentinel, a cleaning that throws the
\* cleaning-failed sentinel.
C13_PriorityChain ==
    Ret("extractNewsContent")
        => LET e      == args.entry
               page   == args.detailPage
               fields == << e.encoded, e.content, e.description, e.summary >>
               first  == CHOOSE i \in 1..5 :
                            /\ i <= 4 => NonBlank(fields[i])
                            /\ \A j \in 1..(i - 1) : ~NonBlank(fields[j])
               Final(t) == IF cleanFooterContent(t) = << >> THEN ContentEmpty
                           ELSE cleanFooterContent(t)
           IN  IF detailPageEnabled /\ args.feedConfig.detail
                    /\ NonBlank(e.link) /\ NonBlank(page)
               THEN result.value = Final(page)
               ELSE IF first = 5 THEN result.value = ExtractFailed
               ELSE IF args.cleanThrows THEN result.value = CleanFailed
               ELSE /\ result.value = Final(cleanHtmlContent(fields[first]))
                    /\ first = 1 => Has(result.value, "e")
                    /\ first = 2 => Has(result.value, "c")
                    /\ first = 3 => Has(result.value, "d")

\* The page is there but the source has detail pages off: the description,
\* the first field that is not blank, is the result.
C13_Witness ==
    /\ Ret("extractNewsContent")
    /\ args.detailPage = << "pg" >>
    /\ ~args.feedConfig.detail
    /\ args.entry.link = << "u" >>
    /\ args.entry.encoded = << " " >>
    /\ args.entry.content = << >>
    /\ args.entry.description = << "<p>", "d" >>
    /\ args.entry.summary = << "<p>", "s" >>
    /\ result.value = << "d" >>

\* C14: whatever the item, the source, the page and the cleaning,
\* extractNewsContent returns a text that is not empty and not blank: a
\* sentinel or a cleaned text.
C14_NeverEmpty ==
    Ret("extractNewsContent")
        => /\ ~result.threw
           /\ result.value # << >>
           /\ NonBlank(result.value)
           /\ \/ result.value \in { ExtractFailed, CleanFailed, ContentEmpty }
              \/ ~Has(result.value, "kw")

\* The only field with text is a byline, which the footer cleaning drops.
C14_Witness ==
    /\ Ret("extractNewsContent")
    /\ args.entry.link = << >>
    /\ args.entry.encoded = << " " >>
    /\ args.entry.summary = << "kw" >>
    /\ ~args.cleanThrows
    /\ result.value = ContentEmpty

\* C15 as stated: cleanFooterContent leaves the 11th line from the end and
\* every line before it as they were.
C15_EleventhLineKept ==
    Ret("cleanFooterContent")
        => LET before == split(args.content, "\n")
               after  == split(result.value, "\n")
           IN  \A i \in 1..(Len(before) - linesToCheck) :
                  i <= Len(after) /\ after[i] = before[i]

\* The call of fetchDetailPageContent got a document and nothing threw.
GotDocument ==
    /\ Ret("fetchDetailPageContent")
    /\ NonBlank(args.link)
    /\ ~args.response.threw
    /\ args.response.code = 200
    /\ ~args.throws

\* C16: fetchDetailPageContent returns the content of the first selector, in
\* the configured order, whose fragment is longer than 100 characters (with
\* the excluded elements removed, and cleaned); a fragment of 100 characters
\* or fewer is passed over, and only when no selector has a longer one is
\* the document itself (the match of the body pattern, else the whole text)
\* the content.
C16_FirstLongFragment ==
    GotDocument
        => LET cfg  == args.detailPageConfig
               html == args.response.html
               sels == IF cfg.selectors = << >> THEN defaultSelectors
                       ELSE cfg.selectors
               Frag(i) == IF sels[i] \in DOMAIN html.fragments
                          THEN html.fragments[sels[i]] ELSE << >>
               Long(i) == TextLen(trim(Frag(i))) > minFragmentLength
               Out(t)  == cleanHtmlContent(
                              removeHtmlElementsBySelector(t, cfg.excludeSelectors))
           IN  /\ \A i \in 1..Len(sels) :
                      (Long(i) /\ \A j \in 1..(i - 1) : ~Long(j))
                          => result.value = Out(Frag(i))
               /\ (\A i \in 1..Len(sels) : ~Long(i))
                      => result.value =
                            Out(IF bodyMatch(html) # << >> THEN bodyMatch(html)
                                ELSE html.whole)
               /\ (cfg.selectors = << "A", "B" >>
                      /\ html.fragments["A"] # << >>
                      /\ TextLen(html.fragments["A"]) <= minFragmentLength
                      /\ TextLen(html.fragments["B"]) > minFragmentLength)
                      => (Has(result.value, "b") /\ ~Has(result.value, "a")
                            /\ ~Has(result.value, "A100"))

\* Selector A has a fragment of exactly 100 characters, B one of 101.
C16_Witness ==
    /\ GotDocument
    /\ args.detailPageConfig = [selectors |-> << "A", "B" >>,
                                excludeSelectors |-> << ".ad" >>]
    /\ args.response.html.fragments["A"] = << "A100" >>
    /\ args.response.html.fragments["B"] = << "B100", "b", ".ad" >>
    /\ result.value = << "B100", "b" >>

\* C17: fetchDetailPageContent always returns, and returns the empty text
\* for a blank link, for a fetch that throws, for a status other than 200
\* and for an exception in a later step.
C17_DetailNeverThrows ==
    Ret("fetchDetailPageContent")
        => /\ ~result.threw
           /\ (\/ ~NonBlank(args.link)
               \/ args.response.threw
               \/ args.response.code # 200
               \/ args.throws)
                 => result.value = << >>

\* A 404 answer that carries a document with a long fragment.
C17_Witness ==
    /\ Ret("fetchDetailPageContent")
    /\ args.link = << "u" >>
    /\ args.response.code = 404
    /\ args.response.html.fragments["B"] = << "B100", "b", ".ad" >>
    /\ ~args.throws
    /\ result.value = << >>

\* C18: a feed whose fetch or parse fails gives no entries and no
\* exception: the run stands at the feed's (empty) list of entries with no
\* error counted and nothing processed, and its next step goes on to the
\* next feed (to the summary after the last) and changes no counter and no
\* file.
C18_FetchFailureGivesNoItems ==
    /\ [](outcome = "nofeed"
             => (pc = "entry" /\ limited = 0 /\ entryIdx = 1 /\ Counters = snap))
    /\ [][outcome = "nofeed"
             => /\ feedIdx' = feedIdx + 1
                /\ pc' = IF feedIdx < Len(targetFeeds) THEN "feed" ELSE "summary"
                /\ Counters' = Counters
                /\ folder' = folder]_vars

\* The first feed of group 1 gave an item that was saved; the fetch of the
\* second failed.
C18_Witness ==
    /\ outcome = "nofeed"
    /\ groupNumber = 1
    /\ feedIdx = 2
    /\ totalSaved = 1
    /\ totalErrors = 0

\* The places in RSS_FEEDS of the sources configured for the run's group.
FeedsOfGroup == { i \in 1..Len(RSS_FEEDS) : RSS_FEEDS[i].processGroup = groupNumber }

\* The stages of the forEach over targetFeeds.
AtFeed == { "feed", "entry", "classify", "extract", "summarize", "save" }

\* The stages of a run of processNewsFeedsByGroup.
InRun == { "start", "folder", "summary", "done", "returned" } \cup AtFeed

OneLongItemDone ==
    /\ ItemDone
    /\ limited = 1
    /\ ~InvalidTitle(entry.title)
    /\ shouldFetchDetailPage(entry, feed)
    /\ classification = [shouldSave |-> TRUE, category |-> << "fin" >>]
    /\ isAISummarized
    /\ TextLen(extractedContent) = 600

\* C20 as stated: with no exception and no failed write, the item of that
\* scenario ends as one record of category "fin", marked as an AI summary,
\* with a body of at most summaryBudget characters.
C20_BodyWithinBudget ==
    (OneLongItemDone /\ outcome \notin { "threw", "savefailed" })
        => /\ outcome = "saved"
           /\ calls.write = snap.calls.write + 1
           /\ Stored(entry.title).category = << "fin" >>
           /\ Stored(entry.title).prefix = "AI summary"
           /\ TextLen(Stored(entry.title).content) <= summaryBudget

\* C20: in that scenario the classifier, the detail page and the summarizer
\* are each asked once; the final body is the summarizer's reply without its
\* reasoning blocks, or the resolved body when the request failed, whatever
\* its length; a final body under the minimum is skipped without a write;
\* any other goes to one write, and a successful write leaves one record of
\* category "fin", marked as an AI summary, holding that final body.
C20_EndToEnd ==
    OneLongItemDone
        => /\ calls.classify = snap.calls.classify + 1
           /\ calls.fetch = snap.calls.fetch + 1
           /\ calls.summarize = snap.calls.summarize + 1
           /\ finalContent = IF askGroq(oracle).ok
                             THEN cleanThinkingTags(askGroq(oracle).text)
                             ELSE extractedContent
           /\ outcome \in { "short", "saved", "savefailed", "threw" }
           /\ outcome = "short" <=> TextLen(finalContent) < minContentLength
                                       /\ calls.write = snap.calls.write
           /\ outcome = "short" => totalSaved = snap.saved
           /\ outcome \in { "saved", "savefailed" }
                 => calls.write = snap.calls.write + 1
           /\ outcome = "saved"
                 => /\ totalSaved = snap.saved + 1
                    /\ Cardinality(getFilesByName(folder, newsFileName(entry.title))) = 1
                    /\ Stored(entry.title) =
                          [source |-> feed.name, category |-> << "fin" >>,
                           title |-> entry.title, prefix |-> "AI summary",
                           content |-> finalContent]

\* The summarizer answered with 470 characters, which were saved.
C20_Witness ==
    /\ OneLongItemDone
    /\ outcome = "saved"
    /\ askGroq(oracle).ok
    /\ Stored(entry.title).prefix = "AI summary"
    /\ TextLen(Stored(entry.title).content) > summaryBudget

C22_OnlyOldUnstarred ==
    /\ [](pc = "threads"
            => /\ result.cutoffDate = 0 - (IF args.fn = "gmailAutoArchive" THEN 3 ELSE 365)
               /\ result.examined <= BATCH_SIZE
               /\ result.examined <= args.mailbox
               /\ result.moved
                    => /\ result.examined >= 1
                       /\ result.thread.lastMessageDate < result.cutoffDate
                       /\ ~result.thread.hasStarredMessages
               /\ (result.thread.hasStarredMessages
                     \/ result.thread.lastMessageDate >= result.cutoffDate)
                    => ~result.moved)
    /\ [][(pc = "threads" /\ result'.moved) => result'.examined = result.examined + 1]_vars
    /\ []((pc = "ret" /\ args.fn \in { "gmailAutoArchive", "gmailAutoTrash" })
            => (result.examined <= BATCH_SIZE /\ ~result.moved))

\* The last thread of a full batch, out of a larger mailbox, has been moved
\* to the trash.
C22_Witness ==
    /\ pc = "threads"
    /\ args.fn = "gmailAutoTrash"
    /\ args.mailbox > BATCH_SIZE
    /\ result.examined = BATCH_SIZE
    /\ result.moved
    /\ result.thread.lastMessageDate = 0 - 366

\* The files a call of cleanFilesInFolder has moved to the trash.
MovedToTrash ==
    { i \in 1..Len(args.files) :
         result.value.files[i].trashed /\ ~args.files[i].trashed }

\* C23: a file is moved to the trash by cleanFilesInFolder only when the
\* call is not a dry run, the action is 'trash', the file was not in the
\* trash and every filter of the configuration holds for it; no file leaves
\* the trash, and a dry run changes no file.
C23_TrashOnlyWhenAllHold ==
    Ret("cleanFilesInFolder")
        => /\ Len(result.value.files) = Len(args.files)
           /\ \A i \in 1..Len(args.files) :
                 /\ args.files[i].trashed => result.value.files[i].trashed
                 /\ i \in MovedToTrash
                      => /\ ~args.config.dryRun
                         /\ args.config.action = "trash"
                         /\ args.found
                         /\ \A k \in 1..Len(args.config.filters) :
                               applyFileFilter(ArgFiles[i], args.config.filters[k],
                                               args.now)
           /\ args.config.dryRun => result.value.files = ArgFiles

\* A dry run with a file that every filter holds for: counted, not moved.
C23_Witness ==
    /\ Ret("cleanFilesInFolder")
    /\ args.config.dryRun
    /\ args.config.action = "trash"
    /\ Len(args.config.filters) = 2
    /\ result.value.success
    /\ result.value.actioned = 1
    /\ MovedToTrash = {}

\* C24 as stated: when cleanFilesInFolder returns its summary, 'processed'
\* is the number of files it went through and 'actioned' the number of files
\* it has moved to the trash.
C24_ActionedIsMoved ==
    (Ret("cleanFilesInFolder") /\ result.value.success
       /\ ~args.config.dryRun /\ args.config.action = "trash")
        => /\ result.value.processed =
                 IF args.config.maxFiles # 0 /\ args.config.maxFiles < Len(args.files)
                 THEN args.config.maxFiles ELSE Len(args.files)
           /\ result.value.actioned = Cardinality(MovedToTrash)

\* C30: a filter of an unknown type holds for every file, so a call that is
\* not a dry run, with the action 'trash' and only such filters, leaves every
\* file it went through in the trash (but one whose setTrashed throws); a
\* filter that throws and a time filter with an unparsable threshold hold
\* for no file, and a call with such a filter moves nothing.
C30_UnknownMatchesAll ==
    Ret("cleanFilesInFolder")
        => LET filters == args.config.filters
               unknown(k) == filters[k].type \notin KnownFilterTypes
               throws(k)  == /\ filters[k].type = "filename_pattern"
                             /\ filters[k].pattern \in InvalidPatterns
               badTime(k) == /\ filters[k].type = "time"
                             /\ filters[k].olderThan # << >>
                             /\ ~matchesDuration(filters[k].olderThan)
                             /\ filters[k].olderThan \notin DateStrings
           IN  /\ \A k \in 1..Len(filters), i \in 1..Len(args.files) :
                     /\ unknown(k) => applyFileFilter(ArgFiles[i], filters[k], args.now)
                     /\ throws(k) => ~applyFileFilter(ArgFiles[i], filters[k], args.now)
                     /\ badTime(k) => ~applyFileFilter(ArgFiles[i], filters[k], args.now)
               /\ (/\ filters # << >>
                   /\ \A k \in 1..Len(filters) : unknown(k)
                   /\ result.value.success
                   /\ ~args.config.dryRun
                   /\ args.config.action = "trash")
                    => /\ result.value.actioned =
                             Cardinality({ i \in 1..result.value.processed :
                                              ~args.files[i].trashed })
                       /\ \A i \in 1..result.value.processed :
                             args.files[i].trashOk => result.value.files[i].trashed
               /\ (\E k \in 1..Len(filters) : throws(k) \/ badTime(k))
                    => (MovedToTrash = {} /\ result.value.actioned = 0)

\* A folder of two files, one of a day's age, under a single filter of an
\* unknown type: both are in the trash.
C30_Witness ==
    /\ Ret("cleanFilesInFolder")
    /\ Len(args.config.filters) = 1
    /\ args.config.filters[1].type \notin KnownFilterTypes
    /\ Cardinality(MovedToTrash) = 2
    /\ \E i \in MovedToTrash : args.files[i].age = 1

\* What stands after the first comma of a response once the reasoning
\* markup is stripped.
RemainderOf(t) ==
    LET response == cleanThinkingTags(t)
        first    == CHOOSE i \in 1..Len(response) :
                       response[i] = "," /\ \A j \in 1..(i - 1) : response[j] # ","
    IN  SubSeq(response, first + 1, Len(response))

\* A text with the blanks around each of its comma-separated pieces removed.
TrimPieces(t) ==
    LET pieces == split(t, ",")
    IN  join([i \in 1..Len(pieces) |-> trim(pieces[i])], ",")

\* The oracle has answered with a flag of 0 or 1 and a comma.
WellFormedReply ==
    /\ pc = "parsed"
    /\ oracle.ok
    /\ ~NoComma(cleanThinkingTags(oracle.text))
    /\ FlagOf(oracle.text) \in { << "0" >>, << "1" >> }

\* C25 as stated: the category of a response with the flag 0 or 1 is what
\* stands after the first comma (without the blanks around it).
C25_CategoryIsRemainder ==
    WellFormedReply
        => classification = [shouldSave |-> FlagOf(oracle.text) = << "1" >>,
                             category   |-> trim(RemainderOf(oracle.text))]

\* C25: with the reasoning markup stripped, a response without a comma or
\* with a flag other than 0 and 1 (blanks around it aside) gives the failure
\* classification; any other gives keep = (flag = 1) and as category what
\* stands after the first comma, its commas kept, with the blanks around each
\* comma-separated piece removed; "1,fin" gives keep = true / fin, "0,fin"
\* keep = false / fin, and "maybe" the failure classification.
C25_ParsedFlagAndCategory ==
    /\ WellFormedReply
         => classification = [shouldSave |-> FlagOf(oracle.text) = << "1" >>,
                              category   |-> TrimPieces(RemainderOf(oracle.text))]
    /\ (pc = "parsed" /\ oracle.ok /\ ~WellFormedReply)
         => classification = ClassificationFailed
    /\ (pc = "parsed" /\ oracle = ApiReply(<< "1", ",", "fin" >>))
         => classification = [shouldSave |-> TRUE, category |-> << "fin" >>]
    /\ (pc = "parsed" /\ oracle = ApiReply(<< "0", ",", "fin" >>))
         => classification = [shouldSave |-> FALSE, category |-> << "fin" >>]
    /\ (pc = "parsed" /\ oracle = ApiReply(<< "fail", "fin" >>))
         => classification = ClassificationFailed

\* A category of two words: the blank before the comma between them is gone.
C25_Witness ==
    /\ pc = "parsed"
    /\ oracle = ApiReply(<< "1", ",", "fin", " ", ",", "fin" >>)
    /\ classification = [shouldSave |-> TRUE, category |-> << "fin", ",", "fin" >>]

\* An opening <div ...> tag of HTML, and the depth of the tags of a page up
\* to a place, counted from a place on.
IsOpening(tok) == tok \in { "<div>", "<div class=c>", "<div data-u=/a>" }

RECURSIVE DepthAt(_, _, _)
DepthAt(html, from, to) ==
    IF to < from THEN 0
    ELSE DepthAt(html, from, to - 1)
           + (IF IsOpening(html[to]) THEN 1 ELSE IF html[to] = "</div>" THEN 0 - 1 ELSE 0)

\* Every closing tag of the page closes an opening one and none stays open.
WellNested(html) ==
    /\ \A i \in 1..Len(html) : DepthAt(html, 1, i) >= 0
    /\ DepthAt(html, 1, Len(html)) = 0

\* The place of the closing tag that balances the opening tag at a place.
BalancingClose(html, open) ==
    CHOOSE j \in (open + 1)..Len(html) :
        DepthAt(html, open, j) = 0 /\ \A k \in open..(j - 1) : DepthAt(html, open, k) > 0

\* The deepest nesting inside the element that opens at a place.
NestingDepth(html, open) ==
    CHOOSE d \in 0..Len(html) :
        /\ \E k \in open..BalancingClose(html, open) : DepthAt(html, open, k) = d
        /\ \A k \in open..BalancingClose(html, open) : DepthAt(html, open, k) <= d

\* C26 as stated: for a well-nested page with a <div class="c"> whose
\* nesting is less deep than maxDepth, extractElement returns what stands
\* between that tag and the closing tag that balances it.
C26_BalancedClose ==
    (Ret("extractElement") /\ WellNested(args.html) /\ startMatch(args.html) # 0
       /\ NestingDepth(args.html, startMatch(args.html))
             < (IF args.maxDepth = 0 THEN DefaultMaxDepth ELSE args.maxDepth))
        => result.value = SubSeq(args.html, startMatch(args.html) + 1,
                                 BalancingClose(args.html, startMatch(args.html)) - 1)

\* C27: a call of fetchWithRetry makes at most maximumRedirects + 1 requests
\* and follows at most maximumRedirects redirects (301, 302, 307, 308); it
\* always ends; a response that is not one of these redirects is returned,
\* whatever its status, and an error is thrown only for a failed request, a
\* redirect beyond the limit or a redirect without a Location header.
C27_RedirectsBounded ==
    /\ [](pc \in { "request", "ret" } /\ args.fn = "fetchWithRetry"
            => /\ result.redirectCount <= maximumRedirects(args.maxRedirects)
               /\ result.requests <= maximumRedirects(args.maxRedirects) + 1
               /\ result.requests \in { result.redirectCount, result.redirectCount + 1 })
    /\ []((pc = "ret" /\ args.fn = "fetchWithRetry")
            => /\ result.done
               /\ (~result.response.threw /\ result.response.code \notin { 301, 302, 307, 308 })
                    => ~result.threw
               /\ result.threw
                    => \/ result.response.threw
                       \/ /\ result.response.code \in { 301, 302, 307, 308 }
                          /\ \/ ~result.response.location
                             \/ result.redirectCount = maximumRedirects(args.maxRedirects))
    /\ (pc = "request") ~> (pc = "ret")

\* With the default limit of 5, five redirects were followed and the sixth
\* request was answered with another redirect: the call has thrown.
C27_Witness ==
    /\ pc = "ret"
    /\ args.fn = "fetchWithRetry"
    /\ args.maxRedirects = 0
    /\ result.requests = 6
    /\ result.redirectCount = 5
    /\ result.response = HttpResponse(308, TRUE)
    /\ result.threw

\* C28: in a group run the saved counter never exceeds the processed
\* counter; a callback adds at most one to the saved and error counters
\* together, and only when it has added one to the processed counter; the
\* summary reports processed - saved as skipped, so that an item whose
\* callback raised an exception counts as skipped and as an error; an item
\* with a blank title changes no counter.
C28_RunCounters ==
    /\ pc \in InRun => totalSaved <= totalProcessed
    /\ ItemDone
         => /\ totalProcessed - snap.processed \in { 0, 1 }
            /\ (totalSaved - snap.saved) + (totalErrors - snap.errors) \in { 0, 1 }
            /\ (totalSaved - snap.saved) + (totalErrors - snap.errors)
                  <= totalProcessed - snap.processed
    /\ (ItemDone /\ outcome = "threw")
         => /\ totalErrors = snap.errors + 1
            /\ totalSaved = snap.saved
            /\ Skipped = (snap.processed - snap.saved) + 1
    /\ (ItemDone /\ outcome = "blank")
         => (totalProcessed = snap.processed /\ totalSaved = snap.saved
               /\ totalErrors = snap.errors)
    /\ (pc = "done" /\ summary.logged)
         => /\ summary.processed = totalProcessed
            /\ summary.saved = totalSaved
            /\ summary.errors = totalErrors
            /\ summary.skipped = summary.processed - summary.saved

\* The run of group 2 saw two items: one was saved, the other raised an
\* exception and is reported as skipped and as an error.
C28_Witness ==
    /\ pc = "done"
    /\ groupNumber = 2
    /\ summary.processed = 2
    /\ summary.saved = 1
    /\ summary.skipped = 1
    /\ summary.errors = 1

\* Pairs of distinct titles, one pair for each way two titles come to the
\* same file name: a dropped character, blanks around the text, text past
\* the first 100 characters.
CollidingTitles ==
    { << << "a" >>, << "a", "?" >> >>,
      << << "a" >>, << " ", "a", " " >> >>,
      << << "A100", "a" >>, << "A100", "b" >> >> }

\* The folder holds a record written under the current entry's file name
\* by an item of another title.
HoldsOtherTitle ==
    \E i \in 1..Len(folder) :
        /\ folder[i].name = newsFileName(entry.title)
        /\ folder[i].content.title # entry.title

\* C29: distinct titles that differ in a dropped character, in surrounding
\* blanks or past the first 100 characters derive one file name; a
\* successful save of an item whose file name the folder already holds under
\* another title is counted as saved, adds no file and leaves the file
\* holding the later record only; so the folder never holds more files than
\* the saved counter says, and after such a save it holds fewer.
C29_SameNameCountedTwice ==
    /\ \A p \in CollidingTitles :
           p[1] # p[2] /\ newsFileName(p[1]) = newsFileName(p[2])
    /\ [](pc \in InRun => Len(folder) <= totalSaved)
    /\ [][(pc = "save" /\ HoldsOtherTitle /\ totalSaved' = totalSaved + 1)
             => /\ Len(folder') = Len(folder)
                /\ Len(folder') < totalSaved'
                /\ \A i \in 1..Len(folder') :
                       folder'[i].name = newsFileName(entry.title)
                          => folder'[i].content = newsContent]_vars

\* The second of two items with distinct titles and one file name is about
\* to be written: the first was counted and is the folder's only file.
C29_Witness ==
    /\ pc = "save"
    /\ entry.title = << "a" >>
    /\ totalSaved = 1
    /\ Len(folder) = 1
    /\ folder[1].name = newsFileName(<< "a" >>)
    /\ folder[1].content.title = << "a", "?" >>

====
